---- MODULE Spec2Model ----
(***************************************************************************)
(* Product description generator (Optimizely Opal custom tool).            *)
(*                                                                         *)
(* The module models                                                       *)
(*   - the attribute parser of the C# service (ParseAttributes) and of the *)
(*     TypeScript "split" variant,                                         *)
(*   - the description strategies (markdown report, compact sentence,      *)
(*     plain summary),                                                     *)
(*   - the Cloudflare worker fetch handler of src/index.ts and of its      *)
(*     first variant,                                                      *)
(*   - the C# tool method GenerateDescription with its validation.         *)
(*                                                                         *)
(* Text is modelled by TLA+ strings; TLC evaluates Len, SubSeq and \o on   *)
(* them, so every string operation of the code is computed character by   *)
(* character.                                                              *)
(***************************************************************************)
EXTENDS Integers, Sequences, FiniteSets, TLC

VARIABLES
    pc,           \* position of the modelled call
    request,      \* HTTP request handed to fetch
    response,     \* HTTP response returned by fetch
    productName,  \* inputs of a description call
    partNumber,
    attributes,
    type,
    tone,
    attrMap,      \* key -> value lookup built by the parser
    attrList,     \* ordered (key, value, original) triples built by the parser
    description,  \* text returned by a description strategy
    calls,        \* calls of fetch made to one worker, in order of arrival
    runtime,      \* the JavaScript runtime the worker was deployed on
    newLine,      \* Environment.NewLine of the host of the C# programs
    tool,         \* the ProductDescriptionGeneratorTool the worker module holds
    PriorityKeys  \* the static array of DescriptionGenerationService

vars == <<pc, request, response, productName, partNumber, attributes,
          type, tone, attrMap, attrList, description, calls, runtime, newLine, tool, PriorityKeys>>

(***************************************************************************)
(* Bounds                                                                  *)
(***************************************************************************)
MaxLen == 2       \* longest attribute string enumerated over Alphabet
MaxAttrs == 2     \* longest enumerated attribute list
MaxDescribeAttrs == 2   \* longest attribute list drawn from DescribePool
MaxPad == 410     \* longest padding of a product name
PadWindow == 12   \* the paddings are MaxPad - PadWindow .. MaxPad

(***************************************************************************)
(* String primitives (.NET / JavaScript string methods)                    *)
(***************************************************************************)
CharAt(s, i) == SubSeq(s, i, i)

\* String.IndexOf(char) / indexOf: 0-based index of the first occurrence, -1 if none
IndexOf(s, c) ==
    IF \E i \in 1..Len(s) : CharAt(s, i) = c
    THEN (CHOOSE i \in 1..Len(s) :
             /\ CharAt(s, i) = c
             /\ \A j \in 1..(i - 1) : CharAt(s, j) # c) - 1
    ELSE -1

\* String.Substring(start, length) with a 0-based start
Substring(s, start, length) == SubSeq(s, start + 1, start + length)

\* String.Substring(start) / substring(start)
SubstringFrom(s, start) == SubSeq(s, start + 1, Len(s))

\* the white-space characters a string of this module can hold: U+0009 to
\* U+000D, U+0020, U+0085, U+00A0 and U+1680 for .NET (Char.IsWhiteSpace);
\* JavaScript's trim() takes U+FEFF and not U+0085. The space separators
\* U+2000 to U+3000 cannot be written in a string here.
VerticalTab == ""      \* U+000B
NextLine == ""         \* U+0085
NoBreakSpace == " "     \* U+00A0
OghamSpace == " "       \* U+1680
ByteOrderMark == "﻿"    \* U+FEFF

WhiteSpaceChars ==
    {" ", "\t", "\n", VerticalTab, "\f", "\r", NextLine, NoBreakSpace, OghamSpace}

WhiteSpaceCharsJs ==
    {" ", "\t", "\n", VerticalTab, "\f", "\r", NoBreakSpace, OghamSpace, ByteOrderMark}

\* Char.IsWhiteSpace
IsWhiteSpace(c) == c \in WhiteSpaceChars

\* string.IsNullOrWhiteSpace for a string that is not null
IsNullOrWhiteSpace(s) == \A i \in 1..Len(s) : IsWhiteSpace(CharAt(s, i))

\* s without its leading and trailing characters of the set white
Strip(s, white) ==
    IF \A i \in 1..Len(s) : CharAt(s, i) \in white
    THEN ""
    ELSE LET first == CHOOSE i \in 1..Len(s) :
                         /\ CharAt(s, i) \notin white
                         /\ \A j \in 1..(i - 1) : CharAt(s, j) \in white
             last  == CHOOSE i \in 1..Len(s) :
                         /\ CharAt(s, i) \notin white
                         /\ \A j \in (i + 1)..Len(s) : CharAt(s, j) \in white
         IN  SubSeq(s, first, last)

\* String.Trim() of .NET
Trim(s) == Strip(s, WhiteSpaceChars)

\* String.prototype.trim() of JavaScript
TrimJs(s) == Strip(s, WhiteSpaceCharsJs)

\* the grave accent, as of the markdown code span around the part number
BackTick == SubSeq("`'", 1, 1)

(***************************************************************************)
(* Letter case                                                             *)
(*                                                                         *)
(* A string of this module holds the characters U+0000 to U+007F and the   *)
(* characters of the Basic Multilingual Plane whose code ends in 80 to FF. *)
(* The tables below list every letter of this alphabet whose other case is *)
(* in the alphabet too, with the simple case mappings of version 17 of the *)
(* Unicode character database.  A letter whose other case lies outside    *)
(* the alphabet (U+0181, whose lower-case form is U+0253, is one) cannot   *)
(* be converted here and is no input of the model.                         *)
(***************************************************************************)
\* the set of the characters of a text
CharsOf(text) == {CharAt(text, i) : i \in 1..Len(text)}

\* Upper[i] is a letter with a lower-case form, Lower[i] that form
Upper == <<"A","B","C","D","E","F","G","H","I","J","K","L","M","N","O","P",
           "Q","R","S","T","U","V","W","X","Y","Z","À","Á","Â","Ã","Ä","Å",
           "Æ","Ç","È","É","Ê","Ë","Ì","Í","Î","Ï","Ð","Ñ","Ò","Ó","Ô","Õ",
           "Ö","Ø","Ù","Ú","Û","Ü","Ý","Þ","Ƃ","Ƅ","Ƈ","Ƌ","Ǝ","Ƒ","Ƙ","Ơ",
           "Ƣ","Ƥ","Ʀ","Ƨ","Ʃ","Ƭ","Ʈ","Ư","Ʊ","Ʋ","Ƴ","Ƶ","Ʒ","Ƹ","Ƽ","Ǆ",
           "ǅ","Ǉ","ǈ","Ǌ","ǋ","Ǎ","Ǐ","Ǒ","Ǔ","Ǖ","Ǘ","Ǚ","Ǜ","Ǟ","Ǡ","Ǣ",
           "Ǥ","Ǧ","Ǩ","Ǫ","Ǭ","Ǯ","Ǳ","ǲ","Ǵ","Ƕ","Ƿ","Ǹ","Ǻ","Ǽ","Ǿ","Ά",
           "Έ","Ή","Ί","Ό","Ύ","Ώ","Α","Β","Γ","Δ","Ε","Ζ","Η","Θ","Ι","Κ",
           "Λ","Μ","Ν","Ξ","Ο","Π","Ρ","Σ","Τ","Υ","Φ","Χ","Ψ","Ω","Ϊ","Ϋ",
           "Ϗ","Ϙ","Ϛ","Ϝ","Ϟ","Ϡ","Ϣ","Ϥ","Ϧ","Ϩ","Ϫ","Ϭ","Ϯ","ϴ","Ϸ","Ϲ",
           "Ϻ","Ҁ","Ҋ","Ҍ","Ҏ","Ґ","Ғ","Ҕ","Җ","Ҙ","Қ","Ҝ","Ҟ","Ҡ","Ң","Ҥ",
           "Ҧ","Ҩ","Ҫ","Ҭ","Ү","Ұ","Ҳ","Ҵ","Ҷ","Ҹ","Һ","Ҽ","Ҿ","Ӏ","Ӂ","Ӄ",
           "Ӆ","Ӈ","Ӊ","Ӌ","Ӎ","Ӑ","Ӓ","Ӕ","Ӗ","Ә","Ӛ","Ӝ","Ӟ","Ӡ","Ӣ","Ӥ",
           "Ӧ","Ө","Ӫ","Ӭ","Ӯ","Ӱ","Ӳ","Ӵ","Ӷ","Ӹ","Ӻ","Ӽ","Ӿ","Ꮀ","Ꮁ","Ꮂ",
           "Ꮃ","Ꮄ","Ꮅ","Ꮆ","Ꮇ","Ꮈ","Ꮉ","Ꮊ","Ꮋ","Ꮌ","Ꮍ","Ꮎ","Ꮏ","Ꮐ","Ꮑ","Ꮒ",
           "Ꮓ","Ꮔ","Ꮕ","Ꮖ","Ꮗ","Ꮘ","Ꮙ","Ꮚ","Ꮛ","Ꮜ","Ꮝ","Ꮞ","Ꮟ","Ꮠ","Ꮡ","Ꮢ",
           "Ꮣ","Ꮤ","Ꮥ","Ꮦ","Ꮧ","Ꮨ","Ꮩ","Ꮪ","Ꮫ","Ꮬ","Ꮭ","Ꮮ","Ꮯ","Ꮰ","Ꮱ","Ꮲ",
           "Ꮳ","Ꮴ","Ꮵ","Ꮶ","Ꮷ","Ꮸ","Ꮹ","Ꮺ","Ꮻ","Ꮼ","Ꮽ","Ꮾ","Ꮿ","Ᏸ","Ᏹ","Ᏺ",
           "Ᏻ","Ᏼ","Ᏽ","Ა","Ბ","Გ","Დ","Ე","Ვ","Ზ","Თ","Ი","Კ","Ლ","Მ","Ნ",
           "Ო","Პ","Ჟ","Რ","Ს","Ტ","Უ","Ფ","Ქ","Ღ","Ყ","Შ","Ჩ","Ც","Ძ","Წ",
           "Ჭ","Ხ","Ჯ","Ჰ","Ჱ","Ჲ","Ჳ","Ჴ","Ჵ","Ჶ","Ჷ","Ჸ","Ჹ","Ჺ","Ჽ","Ჾ",
           "Ჿ","Ẁ","Ẃ","Ẅ","Ẇ","Ẉ","Ẋ","Ẍ","Ẏ","Ẑ","Ẓ","Ẕ","ẞ","Ạ","Ả","Ấ",
           "Ầ","Ẩ","Ẫ","Ậ","Ắ","Ằ","Ẳ","Ẵ","Ặ","Ẹ","Ẻ","Ẽ","Ế","Ề","Ể","Ễ",
           "Ệ","Ỉ","Ị","Ọ","Ỏ","Ố","Ồ","Ổ","Ỗ","Ộ","Ớ","Ờ","Ở","Ỡ","Ợ","Ụ",
           "Ủ","Ứ","Ừ","Ử","Ữ","Ự","Ỳ","Ỵ","Ỷ","Ỹ","Ỻ","Ỽ","Ỿ","ᾈ","ᾉ","ᾊ",
           "ᾋ","ᾌ","ᾍ","ᾎ","ᾏ","ᾘ","ᾙ","ᾚ","ᾛ","ᾜ","ᾝ","ᾞ","ᾟ","ᾨ","ᾩ","ᾪ",
           "ᾫ","ᾬ","ᾭ","ᾮ","ᾯ","Ᾰ","Ᾱ","ᾼ","ῌ","Ῐ","Ῑ","Ῠ","Ῡ","Ῥ","ῼ","Ↄ",
           "Ⓐ","Ⓑ","Ⓒ","Ⓓ","Ⓔ","Ⓕ","Ⓖ","Ⓗ","Ⓘ","Ⓙ","Ⓚ","Ⓛ","Ⓜ","Ⓝ","Ⓞ","Ⓟ",
           "Ⓠ","Ⓡ","Ⓢ","Ⓣ","Ⓤ","Ⓥ","Ⓦ","Ⓧ","Ⓨ","Ⓩ","Ⲁ","Ⲃ","Ⲅ","Ⲇ","Ⲉ","Ⲋ",
           "Ⲍ","Ⲏ","Ⲑ","Ⲓ","Ⲕ","Ⲗ","Ⲙ","Ⲛ","Ⲝ","Ⲟ","Ⲡ","Ⲣ","Ⲥ","Ⲧ","Ⲩ","Ⲫ",
           "Ⲭ","Ⲯ","Ⲱ","Ⲳ","Ⲵ","Ⲷ","Ⲹ","Ⲻ","Ⲽ","Ⲿ","Ⳁ","Ⳃ","Ⳅ","Ⳇ","Ⳉ","Ⳋ",
           "Ⳍ","Ⳏ","Ⳑ","Ⳓ","Ⳕ","Ⳗ","Ⳙ","Ⳛ","Ⳝ","Ⳟ","Ⳡ","Ⳣ","Ⳬ","Ⳮ","Ⳳ","Ꚁ",
           "Ꚃ","Ꚅ","Ꚇ","Ꚉ","Ꚋ","Ꚍ","Ꚏ","Ꚑ","Ꚓ","Ꚕ","Ꚗ","Ꚙ","Ꚛ","Ꞁ","Ꞃ","Ꞅ",
           "Ꞇ","Ꞌ","Ꞑ","Ꞓ","Ꞗ","Ꞙ","Ꞛ","Ꞝ","Ꞟ","Ꞡ","Ꞣ","Ꞥ","Ꞧ","Ꞩ","Ʞ","Ʇ",
           "Ʝ","Ꞵ","Ꞷ","Ꞹ","Ꞻ","Ꞽ","Ꞿ","Ꟁ","Ꟃ","Ꞔ","Ʂ","Ᶎ","Ꟈ","Ꟊ","Ꟑ","Ꟗ",
           "Ꟙ","Ꟶ",
           "Ᲊ","Ꟍ","꟎","꟒","꟔","Ꟛ","Ƛ">>
Lower == <<"a","b","c","d","e","f","g","h","i","j","k","l","m","n","o","p",
           "q","r","s","t","u","v","w","x","y","z","à","á","â","ã","ä","å",
           "æ","ç","è","é","ê","ë","ì","í","î","ï","ð","ñ","ò","ó","ô","õ",
           "ö","ø","ù","ú","û","ü","ý","þ","ƃ","ƅ","ƈ","ƌ","ǝ","ƒ","ƙ","ơ",
           "ƣ","ƥ","ʀ","ƨ","ʃ","ƭ","ʈ","ư","ʊ","ʋ","ƴ","ƶ","ʒ","ƹ","ƽ","ǆ",
           "ǆ","ǉ","ǉ","ǌ","ǌ","ǎ","ǐ","ǒ","ǔ","ǖ","ǘ","ǚ","ǜ","ǟ","ǡ","ǣ",
           "ǥ","ǧ","ǩ","ǫ","ǭ","ǯ","ǳ","ǳ","ǵ","ƕ","ƿ","ǹ","ǻ","ǽ","ǿ","ά",
           "έ","ή","ί","ό","ύ","ώ","α","β","γ","δ","ε","ζ","η","θ","ι","κ",
           "λ","μ","ν","ξ","ο","π","ρ","σ","τ","υ","φ","χ","ψ","ω","ϊ","ϋ",
           "ϗ","ϙ","ϛ","ϝ","ϟ","ϡ","ϣ","ϥ","ϧ","ϩ","ϫ","ϭ","ϯ","θ","ϸ","ϲ",
           "ϻ","ҁ","ҋ","ҍ","ҏ","ґ","ғ","ҕ","җ","ҙ","қ","ҝ","ҟ","ҡ","ң","ҥ",
           "ҧ","ҩ","ҫ","ҭ","ү","ұ","ҳ","ҵ","ҷ","ҹ","һ","ҽ","ҿ","ӏ","ӂ","ӄ",
           "ӆ","ӈ","ӊ","ӌ","ӎ","ӑ","ӓ","ӕ","ӗ","ә","ӛ","ӝ","ӟ","ӡ","ӣ","ӥ",
           "ӧ","ө","ӫ","ӭ","ӯ","ӱ","ӳ","ӵ","ӷ","ӹ","ӻ","ӽ","ӿ","ꮀ","ꮁ","ꮂ",
           "ꮃ","ꮄ","ꮅ","ꮆ","ꮇ","ꮈ","ꮉ","ꮊ","ꮋ","ꮌ","ꮍ","ꮎ","ꮏ","ꮐ","ꮑ","ꮒ",
           "ꮓ","ꮔ","ꮕ","ꮖ","ꮗ","ꮘ","ꮙ","ꮚ","ꮛ","ꮜ","ꮝ","ꮞ","ꮟ","ꮠ","ꮡ","ꮢ",
           "ꮣ","ꮤ","ꮥ","ꮦ","ꮧ","ꮨ","ꮩ","ꮪ","ꮫ","ꮬ","ꮭ","ꮮ","ꮯ","ꮰ","ꮱ","ꮲ",
           "ꮳ","ꮴ","ꮵ","ꮶ","ꮷ","ꮸ","ꮹ","ꮺ","ꮻ","ꮼ","ꮽ","ꮾ","ꮿ","ᏸ","ᏹ","ᏺ",
           "ᏻ","ᏼ","ᏽ","ა","ბ","გ","დ","ე","ვ","ზ","თ","ი","კ","ლ","მ","ნ",
           "ო","პ","ჟ","რ","ს","ტ","უ","ფ","ქ","ღ","ყ","შ","ჩ","ც","ძ","წ",
           "ჭ","ხ","ჯ","ჰ","ჱ","ჲ","ჳ","ჴ","ჵ","ჶ","ჷ","ჸ","ჹ","ჺ","ჽ","ჾ",
           "ჿ","ẁ","ẃ","ẅ","ẇ","ẉ","ẋ","ẍ","ẏ","ẑ","ẓ","ẕ","ß","ạ","ả","ấ",
           "ầ","ẩ","ẫ","ậ","ắ","ằ","ẳ","ẵ","ặ","ẹ","ẻ","ẽ","ế","ề","ể","ễ",
           "ệ","ỉ","ị","ọ","ỏ","ố","ồ","ổ","ỗ","ộ","ớ","ờ","ở","ỡ","ợ","ụ",
           "ủ","ứ","ừ","ử","ữ","ự","ỳ","ỵ","ỷ","ỹ","ỻ","ỽ","ỿ","ᾀ","ᾁ","ᾂ",
           "ᾃ","ᾄ","ᾅ","ᾆ","ᾇ","ᾐ","ᾑ","ᾒ","ᾓ","ᾔ","ᾕ","ᾖ","ᾗ","ᾠ","ᾡ","ᾢ",
           "ᾣ","ᾤ","ᾥ","ᾦ","ᾧ","ᾰ","ᾱ","ᾳ","ῃ","ῐ","ῑ","ῠ","ῡ","ῥ","ῳ","ↄ",
           "ⓐ","ⓑ","ⓒ","ⓓ","ⓔ","ⓕ","ⓖ","ⓗ","ⓘ","ⓙ","ⓚ","ⓛ","ⓜ","ⓝ","ⓞ","ⓟ",
           "ⓠ","ⓡ","ⓢ","ⓣ","ⓤ","ⓥ","ⓦ","ⓧ","ⓨ","ⓩ","ⲁ","ⲃ","ⲅ","ⲇ","ⲉ","ⲋ",
           "ⲍ","ⲏ","ⲑ","ⲓ","ⲕ","ⲗ","ⲙ","ⲛ","ⲝ","ⲟ","ⲡ","ⲣ","ⲥ","ⲧ","ⲩ","ⲫ",
           "ⲭ","ⲯ","ⲱ","ⲳ","ⲵ","ⲷ","ⲹ","ⲻ","ⲽ","ⲿ","ⳁ","ⳃ","ⳅ","ⳇ","ⳉ","ⳋ",
           "ⳍ","ⳏ","ⳑ","ⳓ","ⳕ","ⳗ","ⳙ","ⳛ","ⳝ","ⳟ","ⳡ","ⳣ","ⳬ","ⳮ","ⳳ","ꚁ",
           "ꚃ","ꚅ","ꚇ","ꚉ","ꚋ","ꚍ","ꚏ","ꚑ","ꚓ","ꚕ","ꚗ","ꚙ","ꚛ","ꞁ","ꞃ","ꞅ",
           "ꞇ","ꞌ","ꞑ","ꞓ","ꞗ","ꞙ","ꞛ","ꞝ","ꞟ","ꞡ","ꞣ","ꞥ","ꞧ","ꞩ","ʞ","ʇ",
           "ʝ","ꞵ","ꞷ","ꞹ","ꞻ","ꞽ","ꞿ","ꟁ","ꟃ","ꞔ","ʂ","ᶎ","ꟈ","ꟊ","ꟑ","ꟗ",
           "ꟙ","ꟶ",
           "ᲊ","ꟍ","꟏","ꟓ","ꟕ","ꟛ","ƛ">>

LowerCaseOf ==
    [c \in {Upper[i] : i \in DOMAIN Upper} |->
        Lower[CHOOSE i \in DOMAIN Upper : Upper[i] = c]]

LowerChar(c) == IF c \in DOMAIN LowerCaseOf THEN LowerCaseOf[c] ELSE c

\* String.ToLower() of .NET, under a culture that lowers each character as
\* the invariant culture does; the string is halved to keep the recursion
\* shallow
RECURSIVE ToLower(_)
ToLower(s) ==
    IF Len(s) = 0 THEN ""
    ELSE IF Len(s) = 1 THEN LowerChar(s)
    ELSE LET h == Len(s) \div 2
         IN  ToLower(SubSeq(s, 1, h)) \o ToLower(SubSeq(s, h + 1, Len(s)))

\* the cased letters that are not case-ignorable, and the case-ignorable
\* characters (Cased and Case_Ignorable of the Unicode character database)
CasedChars ==
    CharsOf("ABCDEFGHIJKLMNOPQRSTUVWXYZabcdefghijklmnopqrstuvwxyzªµºÀÁÂÃÄÅÆÇÈ"
         \o "ÉÊËÌÍÎÏÐÑÒÓÔÕÖØÙÚÛÜÝÞßàáâãäåæçèéêëìíîïðñòóôõöøùúûüýþÿƀƁƂƃƄƅƆƇƈƉƊ"
         \o "ƋƌƍƎƏƐƑƒƓƔƕƖƗƘƙƚƛƜƝƞƟƠơƢƣƤƥƦƧƨƩƪƫƬƭƮƯưƱƲƳƴƵƶƷƸƹƺƼƽƾƿǄǅǆǇǈǉǊǋǌǍǎǏ"
         \o "ǐǑǒǓǔǕǖǗǘǙǚǛǜǝǞǟǠǡǢǣǤǥǦǧǨǩǪǫǬǭǮǯǰǱǲǳǴǵǶǷǸǹǺǻǼǽǾǿʀʁʂʃʄʅʆʇʈʉʊʋʌʍʎʏ"
         \o "ʐʑʒʓʖʗʘʙʚʛʜʝʞʟʠʡʢʣʤʥʦʧʨʩʪʫʬʭʮʯΆΈΉΊΌΎΏΐΑΒΓΔΕΖΗΘΙΚΛΜΝΞΟΠΡΣΤΥΦΧΨΩΪ"
         \o "ΫάέήίΰαβγδεζηθικλμνξοπρςστυφχψωϊϋόύώϏϐϑϒϓϔϕϖϗϘϙϚϛϜϝϞϟϠϡϢϣϤϥϦϧϨϩϪ"
         \o "ϫϬϭϮϯϰϱϲϳϴϵϷϸϹϺϻϼϽϾϿҀҁҊҋҌҍҎҏҐґҒғҔҕҖҗҘҙҚқҜҝҞҟҠҡҢңҤҥҦҧҨҩҪҫҬҭҮүҰұҲҳ"
         \o "ҴҵҶҷҸҹҺһҼҽҾҿӀӁӂӃӄӅӆӇӈӉӊӋӌӍӎӏӐӑӒӓӔӕӖӗӘәӚӛӜӝӞӟӠӡӢӣӤӥӦӧӨөӪӫӬӭӮӯӰӱӲӳ"
         \o "ӴӵӶӷӸӹӺӻӼӽӾӿրցւփքօֆևֈႠႡႢႣႤႥႦႧႨႩႪႫႬႭႮႯႰႱႲႳႴႵႶႷႸႹႺႻႼႽႾႿჀჁჂჃჄჅჇჍაბგ"
         \o "დევზთიკლმნოპჟრსტუფქღყშჩცძწჭხჯჰჱჲჳჴჵჶჷჸჹჺჽჾჿᎠᎡᎢᎣᎤᎥᎦᎧᎨᎩᎪᎫᎬᎭᎮᎯᎰᎱᎲᎳᎴ"
         \o "ᎵᎶᎷᎸᎹᎺᎻᎼᎽᎾᎿᏀᏁᏂᏃᏄᏅᏆᏇᏈᏉᏊᏋᏌᏍᏎᏏᏐᏑᏒᏓᏔᏕᏖᏗᏘᏙᏚᏛᏜᏝᏞᏟᏠᏡᏢᏣᏤᏥᏦᏧᏨᏩᏪᏫᏬᏭᏮᏯᏰᏱᏲᏳᏴ"
         \o "ᏵᏸᏹᏺᏻᏼᏽᲀᲁᲂᲃᲄᲅᲆᲇᲈᲐᲑᲒᲓᲔᲕᲖᲗᲘᲙᲚᲛᲜᲝᲞᲟᲠᲡᲢᲣᲤᲥᲦᲧᲨᲩᲪᲫᲬᲭᲮᲯᲰᲱᲲᲳᲴᲵᲶᲷᲸᲹᲺᲽᲾᲿᶀᶁ"
         \o "ᶂᶃᶄᶅᶆᶇᶈᶉᶊᶋᶌᶍᶎᶏᶐᶑᶒᶓᶔᶕᶖᶗᶘᶙᶚẀẁẂẃẄẅẆẇẈẉẊẋẌẍẎẏẐẑẒẓẔẕẖẗẘẙẚẛẜẝẞẟẠạẢảẤấẦ"
         \o "ầẨẩẪẫẬậẮắẰằẲẳẴẵẶặẸẹẺẻẼẽẾếỀềỂểỄễỆệỈỉỊịỌọỎỏỐốỒồỔổỖỗỘộỚớỜờỞởỠỡỢợỤụỦ"
         \o "ủỨứỪừỬửỮữỰựỲỳỴỵỶỷỸỹỺỻỼỽỾỿᾀᾁᾂᾃᾄᾅᾆᾇᾈᾉᾊᾋᾌᾍᾎᾏᾐᾑᾒᾓᾔᾕᾖᾗᾘᾙᾚᾛᾜᾝᾞᾟᾠᾡᾢᾣᾤᾥᾦ"
         \o "ᾧᾨᾩᾪᾫᾬᾭᾮᾯᾰᾱᾲᾳᾴᾶᾷᾸᾹᾺΆᾼιῂῃῄῆῇῈΈῊΉῌῐῑῒΐῖῗῘῙῚΊῠῡῢΰῤῥῦῧῨῩῪΎῬῲῳῴῶῷῸΌῺΏ"
         \o "ῼↃↄⒶⒷⒸⒹⒺⒻⒼⒽⒾⒿⓀⓁⓂⓃⓄⓅⓆⓇⓈⓉⓊⓋⓌⓍⓎⓏⓐⓑⓒⓓⓔⓕⓖⓗⓘⓙⓚⓛⓜⓝⓞⓟⓠⓡⓢⓣⓤⓥⓦⓧⓨⓩⲀⲁⲂⲃⲄⲅⲆⲇⲈ"
         \o "ⲉⲊⲋⲌⲍⲎⲏⲐⲑⲒⲓⲔⲕⲖⲗⲘⲙⲚⲛⲜⲝⲞⲟⲠⲡⲢⲣⲤⲥⲦⲧⲨⲩⲪⲫⲬⲭⲮⲯⲰⲱⲲⲳⲴⲵⲶⲷⲸⲹⲺⲻⲼⲽⲾⲿⳀⳁⳂⳃⳄⳅⳆⳇⳈ"
         \o "ⳉⳊⳋⳌⳍⳎⳏⳐⳑⳒⳓⳔⳕⳖⳗⳘⳙⳚⳛⳜⳝⳞⳟⳠⳡⳢⳣⳤⳫⳬⳭⳮⳲⳳꚀꚁꚂꚃꚄꚅꚆꚇꚈꚉꚊꚋꚌꚍꚎꚏꚐꚑꚒꚓꚔꚕꚖꚗꚘꚙꚚꚛꞀꞁ"
         \o "ꞂꞃꞄꞅꞆꞇꞋꞌꞍꞎꞐꞑꞒꞓꞔꞕꞖꞗꞘꞙꞚꞛꞜꞝꞞꞟꞠꞡꞢꞣꞤꞥꞦꞧꞨꞩꞪꞫꞬꞭꞮꞯꞰꞱꞲꞳꞴꞵꞶꞷꞸꞹꞺꞻꞼꞽꞾꞿꟀꟁꟂꟃꟄꟅ"
         \o "ꟆꟇꟈꟉꟊꟐꟑꟓꟕꟖꟗꟘꟙꟵꟶꟺꮀꮁꮂꮃꮄꮅꮆꮇꮈꮉꮊꮋꮌꮍꮎꮏꮐꮑꮒꮓꮔꮕꮖꮗꮘꮙꮚꮛꮜꮝꮞꮟꮠꮡꮢꮣꮤꮥꮦꮧꮨꮩꮪꮫꮬꮭꮮꮯ"
         \o "ꮰꮱꮲꮳꮴꮵꮶꮷꮸꮹꮺꮻꮼꮽꮾꮿ"
         \o "ᲉᲊꟌꟍ꟎꟏꟒꟔ꟚꟛꟜ")

CaseIgnorableChars ==
    CharsOf("'.:^¨­¯´·¸ʰʱʲʳʴʵʶʷʸʹʺʻʼʽʾʿˀˁ˂˃˄˅ˆˇˈˉˊˋˌˍˎˏːˑ˒˓˔˕˖˗˘˙˚˛˜˝˞˟ˠˡˢˣˤ˥"
         \o "˦˧˨˩˪˫ˬ˭ˮ˯˰˱˲˳˴˵˶˷˸˹˺˻˼˽˾˿΄΅·҃҄҅҆҇҈҉֑֖֛֢֣֤֥֦֧֪֚֒֓֔֕֗֘֙֜֝֞֟֠֡֨֩֫֬"
         \o "ְֱֲֳִֵֶַָׇֹֺֻּֽֿׁׂׅ֭֮֯ׄ״ۖۗۘۙۚۛۜ۝ۣ۟۠ۡۢۤۥۦ۪ۭۧۨ۫۬ަާިީުޫެޭޮޯް߫߬߭߮߯߰߱"
         \o "߲߳ߴߵߺ߽࢈࢐࢑࢙࢚࢛࢘࢜࢝࢞࢟ࣉ࣏࣐࣑࣒࣓࣊࣋࣌࣍࣎ࣔࣕࣖࣗࣘࣙࣚࣛࣜࣝࣞࣟ࣠࣡࣢ࣰࣱࣲࣣࣦࣩ࣭࣮࣯ࣶࣤࣥࣧࣨ࣪࣫࣬ࣳࣴࣵࣷ"
         \o "ࣹࣺࣸࣻࣼࣽࣾࣿঁ়ুূৃৄ্ৢৣ৾ઁં઼ુૂૃૄૅેૈ્ૢૣૺૻૼ૽૾૿ஂீ்ಁ಼ಿೆೌ್ೢೣඁ්ිීුූັິີຶື຺ຸູົຼ"
         \o "ໆ່້໊໋໌ໍ྄ཱྀྀྂྃ྆྇ྍྎྏྐྑྒྒྷྔྕྖྗྙྚྛྜྜྷྞྟྠྡྡྷྣྤྥྦྦྷྨྩྪྫྫྷྭྮྯྰྱྲླྴྵྶྷྸྐྵྺྻྼ࿆ႂႅ"
         \o "ႆႍႝჼ឴឵ិីឹឺុូួំ៉៊់៌៍៎៏័៑្៓ៗ៝ᢅᢆᢩᪧ᪵᪶᪷᪸᪹᪺᪽᪰᪱᪲᪳᪴᪻᪼᪾ᪿᫀ᫃᫄᫊᫁᫂᫅᫆᫇᫈᫉᫋ᫌᫍᫎᮀᮁ"
         \o "ᮢᮣᮤᮥᮨᮩ᮫ᮬᮭ᯦ᯨᯩᯭᯯᯰᯱ᳔᳢᳣᳤᳥᳦᳧᳨᳕᳖᳗᳘᳙᳜᳝᳞᳟᳭᳐᳑᳒᳚᳛᳠᳴᳸᳹ᶛᶜᶝᶞᶟᶠᶡᶢᶣᶤᶥᶦᶧᶨᶩᶪᶫᶬᶭᶮᶯ"
         \o "ᶰᶱᶲᶳᶴᶵᶶᶷᶸᶹᶺᶻᶼᶽᶾᶿ᷐᷎᷂᷊᷏᷀᷁᷃᷄᷅᷆᷇᷈᷉᷋᷌᷑᷒ᷓᷔᷕᷖᷗᷘᷙᷚᷛᷜᷝᷞᷟᷠᷡᷢᷣᷤᷥᷦᷧᷨᷩᷪᷫᷬᷭᷮᷯ᷍"
         \o "᷺᷹᷽᷿᷷᷸ᷰᷱᷲᷳᷴ᷵᷻᷾᷶᷼᾽᾿῀῁῍῎῏῝῞῟῭΅`´῾ₐₑₒₓₔₕₖₗₘₙₚₛₜ⃒⃓⃘⃙⃚⃐⃑⃔⃕⃖⃗⃛⃜⃝⃞⃟⃠⃡⃢⃣"
         \o "⃤⃥⃦⃪⃫゙゚⃨⃬⃭⃮⃯⃧⃩⃰⳯⳰⳱ⷠⷡⷢⷣⷤⷥⷦⷧⷨⷩⷪⷫⷬⷭⷮⷯⷰⷱⷲⷳⷴⷵⷶⷷⷸⷹⷺⷻⷼⷽⷾⷿ゛゜ゝゞーヽヾꓸꓹꓺꓻꓼꓽꚜ"
         \o "ꚝꚞꚟ꛰꛱ꞈ꞉꞊ꟲꟳꟴꟸꟹ꣄ꣅ꣠꣡꣢꣣꣤꣥꣦꣧꣨꣩꣪꣫꣬꣭꣮꣯꣰꣱ꣿꦀꦁꦂ꦳ꦶꦷꦸꦹꦼꦽꧏꧥꧦꪴꪰꪲꪳꪷꪸꪾ꪿꫁ꫝꫬꫭꫳꫴ꫶ꯥꯨ"
         \o "꯭﮲﮳﮴﮵﮶﮷﮸﮹﮺﮻﮼﮽﮾﮿﯀﯁﯂﻿ﾞﾟ￣￹￺￻"
         \o "ࢗ໎᫏᫐᫑᫒᫓᫔᫕᫖᫗᫘᫙᫚᫛᫜᫝᫠᫡᫢᫣᫤᫥᫦᫧᫨᫩᫪᫫꟱")
    \cup {BackTick}

\* Final_Sigma of SpecialCasing: the capital sigma at position i comes after
\* a cased letter and before none, case-ignorable characters in between
\* left aside
FinalSigma(s, i) ==
    /\ \E j \in 1..(i - 1) :
          /\ CharAt(s, j) \in CasedChars
          /\ \A k \in (j + 1)..(i - 1) : CharAt(s, k) \in CaseIgnorableChars
    /\ ~\E j \in (i + 1)..Len(s) :
          /\ CharAt(s, j) \in CasedChars
          /\ \A k \in (i + 1)..(j - 1) : CharAt(s, k) \in CaseIgnorableChars

\* the lower-case form of the characters from..to of s in JavaScript
RECURSIVE LowerRangeJs(_, _, _)
LowerRangeJs(s, from, to) ==
    IF from > to THEN ""
    ELSE IF from = to
    THEN (IF CharAt(s, from) = "Σ" /\ FinalSigma(s, from)
          THEN "ς" ELSE LowerChar(CharAt(s, from)))
    ELSE LowerRangeJs(s, from, (from + to) \div 2)
         \o LowerRangeJs(s, (from + to) \div 2 + 1, to)

\* String.prototype.toLowerCase()
ToLowerJs(s) == LowerRangeJs(s, 1, Len(s))

\* FoldFrom[i] is a character that a comparison ignoring case takes for
\* FoldTo[i]: its upper-case form, or the first character of the alphabet
\* with the same upper-case form where that form lies outside the alphabet.
\* U+0131 and U+017F are left as they are by ordinal comparisons.
FoldFrom == <<"a","b","c","d","e","f","g","h","i","j","k","l","m","n","o","p",
              "q","r","s","t","u","v","w","x","y","z","µ","à","á","â","ã","ä",
              "å","æ","ç","è","é","ê","ë","ì","í","î","ï","ð","ñ","ò","ó","ô",
              "õ","ö","ø","ù","ú","û","ü","ý","þ","ƃ","ƅ","ƈ","ƌ","ƒ","ƕ","ƙ",
              "ơ","ƣ","ƥ","ƨ","ƭ","ư","ƴ","ƶ","ƹ","ƽ","ƿ","ǅ","ǆ","ǈ","ǉ","ǋ",
              "ǌ","ǎ","ǐ","ǒ","ǔ","ǖ","ǘ","ǚ","ǜ","ǝ","ǟ","ǡ","ǣ","ǥ","ǧ","ǩ",
              "ǫ","ǭ","ǯ","ǲ","ǳ","ǵ","ǹ","ǻ","ǽ","ǿ","ʀ","ʂ","ʃ","ʇ","ʈ","ʊ",
              "ʋ","ʒ","ʝ","ʞ","ά","έ","ή","ί","α","β","γ","δ","ε","ζ","η","θ",
              "ι","κ","λ","μ","ν","ξ","ο","π","ρ","ς","σ","τ","υ","φ","χ","ψ",
              "ω","ϊ","ϋ","ό","ύ","ώ","ϐ","ϑ","ϕ","ϖ","ϗ","ϙ","ϛ","ϝ","ϟ","ϡ",
              "ϣ","ϥ","ϧ","ϩ","ϫ","ϭ","ϯ","ϰ","ϱ","ϲ","ϵ","ϸ","ϻ","ҁ","ҋ","ҍ",
              "ҏ","ґ","ғ","ҕ","җ","ҙ","қ","ҝ","ҟ","ҡ","ң","ҥ","ҧ","ҩ","ҫ","ҭ",
              "ү","ұ","ҳ","ҵ","ҷ","ҹ","һ","ҽ","ҿ","ӂ","ӄ","ӆ","ӈ","ӊ","ӌ","ӎ",
              "ӏ","ӑ","ӓ","ӕ","ӗ","ә","ӛ","ӝ","ӟ","ӡ","ӣ","ӥ","ӧ","ө","ӫ","ӭ",
              "ӯ","ӱ","ӳ","ӵ","ӷ","ӹ","ӻ","ӽ","ӿ","ა","ბ","გ","დ","ე","ვ","ზ",
              "თ","ი","კ","ლ","მ","ნ","ო","პ","ჟ","რ","ს","ტ","უ","ფ","ქ","ღ",
              "ყ","შ","ჩ","ც","ძ","წ","ჭ","ხ","ჯ","ჰ","ჱ","ჲ","ჳ","ჴ","ჵ","ჶ",
              "ჷ","ჸ","ჹ","ჺ","ჽ","ჾ","ჿ","ᏸ","ᏹ","ᏺ","ᏻ","ᏼ","ᏽ","ᲅ","ᶎ","ẁ",
              "ẃ","ẅ","ẇ","ẉ","ẋ","ẍ","ẏ","ẑ","ẓ","ẕ","ạ","ả","ấ","ầ","ẩ","ẫ",
              "ậ","ắ","ằ","ẳ","ẵ","ặ","ẹ","ẻ","ẽ","ế","ề","ể","ễ","ệ","ỉ","ị",
              "ọ","ỏ","ố","ồ","ổ","ỗ","ộ","ớ","ờ","ở","ỡ","ợ","ụ","ủ","ứ","ừ",
              "ử","ữ","ự","ỳ","ỵ","ỷ","ỹ","ỻ","ỽ","ỿ","ᾀ","ᾁ","ᾂ","ᾃ","ᾄ","ᾅ",
              "ᾆ","ᾇ","ᾐ","ᾑ","ᾒ","ᾓ","ᾔ","ᾕ","ᾖ","ᾗ","ᾠ","ᾡ","ᾢ","ᾣ","ᾤ","ᾥ",
              "ᾦ","ᾧ","ᾰ","ᾱ","ᾳ","ι","ῃ","ῐ","ῑ","ῠ","ῡ","ῥ","ῳ","ↄ","ⓐ","ⓑ",
              "ⓒ","ⓓ","ⓔ","ⓕ","ⓖ","ⓗ","ⓘ","ⓙ","ⓚ","ⓛ","ⓜ","ⓝ","ⓞ","ⓟ","ⓠ","ⓡ",
              "ⓢ","ⓣ","ⓤ","ⓥ","ⓦ","ⓧ","ⓨ","ⓩ","ⲁ","ⲃ","ⲅ","ⲇ","ⲉ","ⲋ","ⲍ","ⲏ",
              "ⲑ","ⲓ","ⲕ","ⲗ","ⲙ","ⲛ","ⲝ","ⲟ","ⲡ","ⲣ","ⲥ","ⲧ","ⲩ","ⲫ","ⲭ","ⲯ",
              "ⲱ","ⲳ","ⲵ","ⲷ","ⲹ","ⲻ","ⲽ","ⲿ","ⳁ","ⳃ","ⳅ","ⳇ","ⳉ","ⳋ","ⳍ","ⳏ",
              "ⳑ","ⳓ","ⳕ","ⳗ","ⳙ","ⳛ","ⳝ","ⳟ","ⳡ","ⳣ","ⳬ","ⳮ","ⳳ","ꚁ","ꚃ","ꚅ",
              "ꚇ","ꚉ","ꚋ","ꚍ","ꚏ","ꚑ","ꚓ","ꚕ","ꚗ","ꚙ","ꚛ","ꞁ","ꞃ","ꞅ","ꞇ","ꞌ",
              "ꞑ","ꞓ","ꞔ","ꞗ","ꞙ","ꞛ","ꞝ","ꞟ","ꞡ","ꞣ","ꞥ","ꞧ","ꞩ","ꞵ","ꞷ","ꞹ",
              "ꞻ","ꞽ","ꞿ","ꟁ","ꟃ","ꟈ","ꟊ","ꟑ","ꟗ","ꟙ","ꟶ","ꮀ","ꮁ","ꮂ","ꮃ","ꮄ",
              "ꮅ","ꮆ","ꮇ","ꮈ","ꮉ","ꮊ","ꮋ","ꮌ","ꮍ","ꮎ","ꮏ","ꮐ","ꮑ","ꮒ","ꮓ","ꮔ",
              "ꮕ","ꮖ","ꮗ","ꮘ","ꮙ","ꮚ","ꮛ","ꮜ","ꮝ","ꮞ","ꮟ","ꮠ","ꮡ","ꮢ","ꮣ","ꮤ",
              "ꮥ","ꮦ","ꮧ","ꮨ","ꮩ","ꮪ","ꮫ","ꮬ","ꮭ","ꮮ","ꮯ","ꮰ","ꮱ","ꮲ","ꮳ","ꮴ",
              "ꮵ","ꮶ","ꮷ","ꮸ","ꮹ","ꮺ","ꮻ","ꮼ","ꮽ","ꮾ","ꮿ",
              "ᲊ","ꟍ","꟏","ꟓ","ꟕ","ꟛ","ƛ">>
FoldTo == <<"A","B","C","D","E","F","G","H","I","J","K","L","M","N","O","P",
            "Q","R","S","T","U","V","W","X","Y","Z","Μ","À","Á","Â","Ã","Ä",
            "Å","Æ","Ç","È","É","Ê","Ë","Ì","Í","Î","Ï","Ð","Ñ","Ò","Ó","Ô",
            "Õ","Ö","Ø","Ù","Ú","Û","Ü","Ý","Þ","Ƃ","Ƅ","Ƈ","Ƌ","Ƒ","Ƕ","Ƙ",
            "Ơ","Ƣ","Ƥ","Ƨ","Ƭ","Ư","Ƴ","Ƶ","Ƹ","Ƽ","Ƿ","Ǆ","Ǆ","Ǉ","Ǉ","Ǌ",
            "Ǌ","Ǎ","Ǐ","Ǒ","Ǔ","Ǖ","Ǘ","Ǚ","Ǜ","Ǝ","Ǟ","Ǡ","Ǣ","Ǥ","Ǧ","Ǩ",
            "Ǫ","Ǭ","Ǯ","Ǳ","Ǳ","Ǵ","Ǹ","Ǻ","Ǽ","Ǿ","Ʀ","Ʂ","Ʃ","Ʇ","Ʈ","Ʊ",
            "Ʋ","Ʒ","Ʝ","Ʞ","Ά","Έ","Ή","Ί","Α","Β","Γ","Δ","Ε","Ζ","Η","Θ",
            "Ι","Κ","Λ","Μ","Ν","Ξ","Ο","Π","Ρ","Σ","Σ","Τ","Υ","Φ","Χ","Ψ",
            "Ω","Ϊ","Ϋ","Ό","Ύ","Ώ","Β","Θ","Φ","Π","Ϗ","Ϙ","Ϛ","Ϝ","Ϟ","Ϡ",
            "Ϣ","Ϥ","Ϧ","Ϩ","Ϫ","Ϭ","Ϯ","Κ","Ρ","Ϲ","Ε","Ϸ","Ϻ","Ҁ","Ҋ","Ҍ",
            "Ҏ","Ґ","Ғ","Ҕ","Җ","Ҙ","Қ","Ҝ","Ҟ","Ҡ","Ң","Ҥ","Ҧ","Ҩ","Ҫ","Ҭ",
            "Ү","Ұ","Ҳ","Ҵ","Ҷ","Ҹ","Һ","Ҽ","Ҿ","Ӂ","Ӄ","Ӆ","Ӈ","Ӊ","Ӌ","Ӎ",
            "Ӏ","Ӑ","Ӓ","Ӕ","Ӗ","Ә","Ӛ","Ӝ","Ӟ","Ӡ","Ӣ","Ӥ","Ӧ","Ө","Ӫ","Ӭ",
            "Ӯ","Ӱ","Ӳ","Ӵ","Ӷ","Ӹ","Ӻ","Ӽ","Ӿ","Ა","Ბ","Გ","Დ","Ე","Ვ","Ზ",
            "Თ","Ი","Კ","Ლ","Მ","Ნ","Ო","Პ","Ჟ","Რ","Ს","Ტ","Უ","Ფ","Ქ","Ღ",
            "Ყ","Შ","Ჩ","Ც","Ძ","Წ","Ჭ","Ხ","Ჯ","Ჰ","Ჱ","Ჲ","Ჳ","Ჴ","Ჵ","Ჶ",
            "Ჷ","Ჸ","Ჹ","Ჺ","Ჽ","Ჾ","Ჿ","Ᏸ","Ᏹ","Ᏺ","Ᏻ","Ᏼ","Ᏽ","ᲄ","Ᶎ","Ẁ",
            "Ẃ","Ẅ","Ẇ","Ẉ","Ẋ","Ẍ","Ẏ","Ẑ","Ẓ","Ẕ","Ạ","Ả","Ấ","Ầ","Ẩ","Ẫ",
            "Ậ","Ắ","Ằ","Ẳ","Ẵ","Ặ","Ẹ","Ẻ","Ẽ","Ế","Ề","Ể","Ễ","Ệ","Ỉ","Ị",
            "Ọ","Ỏ","Ố","Ồ","Ổ","Ỗ","Ộ","Ớ","Ờ","Ở","Ỡ","Ợ","Ụ","Ủ","Ứ","Ừ",
            "Ử","Ữ","Ự","Ỳ","Ỵ","Ỷ","Ỹ","Ỻ","Ỽ","Ỿ","ᾈ","ᾉ","ᾊ","ᾋ","ᾌ","ᾍ",
            "ᾎ","ᾏ","ᾘ","ᾙ","ᾚ","ᾛ","ᾜ","ᾝ","ᾞ","ᾟ","ᾨ","ᾩ","ᾪ","ᾫ","ᾬ","ᾭ",
            "ᾮ","ᾯ","Ᾰ","Ᾱ","ᾼ","Ι","ῌ","Ῐ","Ῑ","Ῠ","Ῡ","Ῥ","ῼ","Ↄ","Ⓐ","Ⓑ",
            "Ⓒ","Ⓓ","Ⓔ","Ⓕ","Ⓖ","Ⓗ","Ⓘ","Ⓙ","Ⓚ","Ⓛ","Ⓜ","Ⓝ","Ⓞ","Ⓟ","Ⓠ","Ⓡ",
            "Ⓢ","Ⓣ","Ⓤ","Ⓥ","Ⓦ","Ⓧ","Ⓨ","Ⓩ","Ⲁ","Ⲃ","Ⲅ","Ⲇ","Ⲉ","Ⲋ","Ⲍ","Ⲏ",
            "Ⲑ","Ⲓ","Ⲕ","Ⲗ","Ⲙ","Ⲛ","Ⲝ","Ⲟ","Ⲡ","Ⲣ","Ⲥ","Ⲧ","Ⲩ","Ⲫ","Ⲭ","Ⲯ",
            "Ⲱ","Ⲳ","Ⲵ","Ⲷ","Ⲹ","Ⲻ","Ⲽ","Ⲿ","Ⳁ","Ⳃ","Ⳅ","Ⳇ","Ⳉ","Ⳋ","Ⳍ","Ⳏ",
            "Ⳑ","Ⳓ","Ⳕ","Ⳗ","Ⳙ","Ⳛ","Ⳝ","Ⳟ","Ⳡ","Ⳣ","Ⳬ","Ⳮ","Ⳳ","Ꚁ","Ꚃ","Ꚅ",
            "Ꚇ","Ꚉ","Ꚋ","Ꚍ","Ꚏ","Ꚑ","Ꚓ","Ꚕ","Ꚗ","Ꚙ","Ꚛ","Ꞁ","Ꞃ","Ꞅ","Ꞇ","Ꞌ",
            "Ꞑ","Ꞓ","Ꞔ","Ꞗ","Ꞙ","Ꞛ","Ꞝ","Ꞟ","Ꞡ","Ꞣ","Ꞥ","Ꞧ","Ꞩ","Ꞵ","Ꞷ","Ꞹ",
            "Ꞻ","Ꞽ","Ꞿ","Ꟁ","Ꟃ","Ꟈ","Ꟊ","Ꟑ","Ꟗ","Ꟙ","Ꟶ","Ꮀ","Ꮁ","Ꮂ","Ꮃ","Ꮄ",
            "Ꮅ","Ꮆ","Ꮇ","Ꮈ","Ꮉ","Ꮊ","Ꮋ","Ꮌ","Ꮍ","Ꮎ","Ꮏ","Ꮐ","Ꮑ","Ꮒ","Ꮓ","Ꮔ",
            "Ꮕ","Ꮖ","Ꮗ","Ꮘ","Ꮙ","Ꮚ","Ꮛ","Ꮜ","Ꮝ","Ꮞ","Ꮟ","Ꮠ","Ꮡ","Ꮢ","Ꮣ","Ꮤ",
            "Ꮥ","Ꮦ","Ꮧ","Ꮨ","Ꮩ","Ꮪ","Ꮫ","Ꮬ","Ꮭ","Ꮮ","Ꮯ","Ꮰ","Ꮱ","Ꮲ","Ꮳ","Ꮴ",
            "Ꮵ","Ꮶ","Ꮷ","Ꮸ","Ꮹ","Ꮺ","Ꮻ","Ꮼ","Ꮽ","Ꮾ","Ꮿ",
            "Ᲊ","Ꟍ","꟎","꟒","꟔","Ꟛ","Ƛ">>

UpperCaseOf ==
    [c \in {FoldFrom[i] : i \in DOMAIN FoldFrom} |->
        FoldTo[CHOOSE i \in DOMAIN FoldFrom : FoldFrom[i] = c]]

UpperChar(c) == IF c \in DOMAIN UpperCaseOf THEN UpperCaseOf[c] ELSE c

\* the string whose characters are compared by an ordinal comparison that
\* ignores case
RECURSIVE ToUpperOrdinal(_)
ToUpperOrdinal(s) ==
    IF Len(s) = 0 THEN ""
    ELSE IF Len(s) = 1 THEN UpperChar(s)
    ELSE LET h == Len(s) \div 2
         IN  ToUpperOrdinal(SubSeq(s, 1, h)) \o ToUpperOrdinal(SubSeq(s, h + 1, Len(s)))

\* StringComparer.OrdinalIgnoreCase.Equals
SameKey(a, b) == ToUpperOrdinal(a) = ToUpperOrdinal(b)

(***************************************************************************)
(* AttributeParser: DescriptionGenerationService.ParseAttributes           *)
(***************************************************************************)
EmptyMap == [k \in {} |-> ""]

\* the key of the dictionary that its comparer takes for `key`, or `key`
\* itself if there is none
MapKey(m, key) ==
    IF \E k \in DOMAIN m : SameKey(k, key)
    THEN CHOOSE k \in DOMAIN m : SameKey(k, key)
    ELSE key

\* Dictionary.ContainsKey / TryGetValue of a dictionary built with
\* StringComparer.OrdinalIgnoreCase
MapHas(m, key) == \E k \in DOMAIN m : SameKey(k, key)

\* the value TryGetValue hands out for a key the dictionary contains
MapGet(m, key) == m[MapKey(m, key)]

\* the dictionary with `value` stored under the key `stored`
MapWith(m, stored, value) ==
    [k \in (DOMAIN m) \cup {stored} |-> IF k = stored THEN value ELSE m[k]]

\* a lookup that keeps the first value of a repeated key (Dictionary.TryAdd)
MapSetFirstWins(m, key, value) ==
    IF MapHas(m, key) THEN m ELSE MapWith(m, key, value)

\* attrMap[key] = value: an equal key keeps its first spelling and takes
\* the new value
MapSet(m, key, value) == MapWith(m, MapKey(m, key), value)

\* Map.prototype.set(key, value): the keys of a Map are compared exactly
MapSetJs(m, key, value) == MapWith(m, key, value)

\* Map.prototype.has(key)
MapHasJs(m, key) == key \in DOMAIN m

\* a loop body that accepts a colon at position 0 (colonIndex >= 0)
ParseOneColonAtZero(acc, attr) ==
    LET colonIndex == IndexOf(attr, ":")
    IN  IF colonIndex >= 0
        THEN LET key   == ToLower(Trim(Substring(attr, 0, colonIndex)))
                 value == Trim(SubstringFrom(attr, colonIndex + 1))
             IN  [attrMap  |-> MapSet(acc.attrMap, key, value),
                  attrList |-> Append(acc.attrList,
                                  [key |-> key, value |-> value, original |-> attr])]
        ELSE [attrMap  |-> acc.attrMap,
              attrList |-> Append(acc.attrList,
                              [key |-> ToLower(attr), value |-> attr, original |-> attr])]

\* a loop body that also indexes the unkeyed strings
ParseOneMapUnkeyed(acc, attr) ==
    LET colonIndex == IndexOf(attr, ":")
    IN  IF colonIndex > 0
        THEN LET key   == ToLower(Trim(Substring(attr, 0, colonIndex)))
                 value == Trim(SubstringFrom(attr, colonIndex + 1))
             IN  [attrMap  |-> MapSet(acc.attrMap, key, value),
                  attrList |-> Append(acc.attrList,
                                  [key |-> key, value |-> value, original |-> attr])]
        ELSE [attrMap  |-> MapSet(acc.attrMap, ToLower(attr), attr),
              attrList |-> Append(acc.attrList,
                              [key |-> ToLower(attr), value |-> attr, original |-> attr])]

\* body of the foreach loop for one attribute string
ParseOne(acc, attr) ==
    LET colonIndex == IndexOf(attr, ":")
    IN  IF colonIndex > 0
        THEN LET key   == ToLower(Trim(Substring(attr, 0, colonIndex)))
                 value == Trim(SubstringFrom(attr, colonIndex + 1))
             IN  [attrMap  |-> MapSet(acc.attrMap, key, value),
                  attrList |-> Append(acc.attrList,
                                  [key |-> key, value |-> value, original |-> attr])]
        ELSE [attrMap  |-> acc.attrMap,
              attrList |-> Append(acc.attrList,
                              [key |-> ToLower(attr), value |-> attr, original |-> attr])]

RECURSIVE ParseFrom(_, _, _)
ParseFrom(acc, attrs, i) ==
    IF i > Len(attrs) THEN acc
    ELSE ParseFrom(ParseOne(acc, attrs[i]), attrs, i + 1)

ParseAttributes(attrs) ==
    ParseFrom([attrMap |-> EmptyMap, attrList |-> <<>>], attrs, 1)

(***************************************************************************)
(* Attribute parsing of the TypeScript "split" variant (generateDescription)*)
(***************************************************************************)
\* String.prototype.split(':'): the pieces between the colons
RECURSIVE Split(_, _)
Split(s, sep) ==
    LET i == IndexOf(s, sep)
    IN  IF i < 0 THEN <<s>>
        ELSE <<Substring(s, 0, i)>> \o Split(SubstringFrom(s, i + 1), sep)

\* body of the forEach callback: only strings with exactly two pieces are kept
SplitOne(m, attr) ==
    LET parts == Split(attr, ":")
    IN  IF Len(parts) = 2
        THEN MapSetJs(m, ToLowerJs(TrimJs(parts[1])), TrimJs(parts[2]))
        ELSE m

RECURSIVE SplitParseFrom(_, _, _)
SplitParseFrom(m, attrs, i) ==
    IF i > Len(attrs) THEN m
    ELSE SplitParseFrom(SplitOne(m, attrs[i]), attrs, i + 1)

ParseAttributesSplit(attrs) == SplitParseFrom(EmptyMap, attrs, 1)

(***************************************************************************)
(* Attribute parsing of the second TypeScript variant (part_005, 503-516)  *)
(***************************************************************************)
\* the callback of attributes.forEach: the loop body of the C# parser with
\* the trim() of JavaScript
ParseOneV2(acc, attr) ==
    LET colonIndex == IndexOf(attr, ":")
    IN  IF colonIndex > 0
        THEN LET key   == ToLowerJs(TrimJs(Substring(attr, 0, colonIndex)))
                 value == TrimJs(SubstringFrom(attr, colonIndex + 1))
             IN  [attrMap  |-> MapSetJs(acc.attrMap, key, value),
                  attrList |-> Append(acc.attrList,
                                  [key |-> key, value |-> value, original |-> attr])]
        ELSE [attrMap  |-> acc.attrMap,
              attrList |-> Append(acc.attrList,
                              [key |-> ToLowerJs(attr), value |-> attr, original |-> attr])]

RECURSIVE ParseFromV2(_, _, _)
ParseFromV2(acc, attrs, i) ==
    IF i > Len(attrs) THEN acc
    ELSE ParseFromV2(ParseOneV2(acc, attrs[i]), attrs, i + 1)

\* attrMap and attrList after the forEach
ParseAttributesV2(attrs) ==
    ParseFromV2([attrMap |-> EmptyMap, attrList |-> <<>>], attrs, 1)

(***************************************************************************)
(* Strategy B: DescriptionGenerationService (compact sentence)             *)
(***************************************************************************)
MaxDescriptionLength == 500   \* if (description.Length > 500)
TruncatedLength == 497        \* description.Substring(0, 497) + "..."

\* String.Contains(sub): sub occurs somewhere in s (the empty string always does)
Contains(s, sub) ==
    \E i \in 0..(Len(s) - Len(sub)) : SubSeq(s, i + 1, i + Len(sub)) = sub

\* 0-based index of the first occurrence of sub in s, -1 if none
IndexOfString(s, sub) ==
    IF Contains(s, sub)
    THEN CHOOSE i \in 0..(Len(s) - Len(sub)) :
            /\ SubSeq(s, i + 1, i + Len(sub)) = sub
            /\ \A j \in 0..(i - 1) : SubSeq(s, j + 1, j + Len(sub)) # sub
    ELSE -1

\* String.Replace(old, new) for a non-empty old: every occurrence, left to right
RECURSIVE Replace(_, _, _)
Replace(s, old, new) ==
    LET i == IndexOfString(s, old)
    IN  IF i < 0 THEN s
        ELSE Substring(s, 0, i) \o new \o Replace(SubstringFrom(s, i + Len(old)), old, new)

\* s.Split(c)[0]: the text before the first c, the whole string if there is none
FirstPiece(s, c) ==
    IF IndexOf(s, c) < 0 THEN s ELSE Substring(s, 0, IndexOf(s, c))

\* string.Join(sep, items)
RECURSIVE Join(_, _)
Join(items, sep) ==
    IF Len(items) = 0 THEN ""
    ELSE IF Len(items) = 1 THEN items[1]
    ELSE items[1] \o sep \o Join(Tail(items), sep)

\* the initializer of the static field PriorityKeys
NewPriorityKeys == <<"capacity", "cartridge type", "weight", "dimensions", "material">>

\* the elaborate phrasing for every professional tone, whatever the type
GetOpeningStatementByTone(m, ty, tn) ==
    LET hasPower == \/ MapHas(m, "battery voltage (v)")
                    \/ MapHas(m, "voltage")
                    \/ MapHas(m, "power")
        isCordless == /\ MapHas(m, "cordless / corded")
                      /\ ToLower(MapGet(m, "cordless / corded")) = "cordless"
    IN  IF ToLower(tn) = "professional"
        THEN IF hasPower /\ isCordless
             THEN "delivers powerful, reliable cordless performance for professional applications. "
             ELSE IF hasPower
             THEN "offers consistent, professional-grade powered performance. "
             ELSE "provides exceptional professional-grade quality and reliability. "
        ELSE IF hasPower /\ isCordless
             THEN "delivers powerful cordless performance. "
             ELSE IF hasPower
             THEN "offers reliable powered performance. "
             ELSE "provides professional-grade quality. "

GetOpeningStatement(m, ty, tn) ==
    LET hasPower == \/ MapHas(m, "battery voltage (v)")
                    \/ MapHas(m, "voltage")
                    \/ MapHas(m, "power")
        isCordless == /\ MapHas(m, "cordless / corded")
                      /\ ToLower(MapGet(m, "cordless / corded")) = "cordless"
    IN  IF ToLower(ty) = "ecommerce" /\ ToLower(tn) = "professional"
        THEN IF hasPower /\ isCordless
             THEN "delivers powerful, reliable cordless performance for professional applications. "
             ELSE IF hasPower
             THEN "offers consistent, professional-grade powered performance. "
             ELSE "provides exceptional professional-grade quality and reliability. "
        ELSE IF hasPower /\ isCordless
             THEN "delivers powerful cordless performance. "
             ELSE IF hasPower
             THEN "offers reliable powered performance. "
             ELSE "provides professional-grade quality. "

IsFeatureAttribute(a) ==
    /\ ~Contains(a.key, "cs_")
    /\ a.key # "brand"
    /\ a.key # "cordless / corded"
    /\ ToLower(a.value) # "yes"
    /\ ToLower(a.value) # "no"
    /\ Len(a.value) > 2

GetPriority(key) ==
    IF \E i \in 1..Len(PriorityKeys) : Contains(key, PriorityKeys[i]) THEN 0 ELSE 1

\* every feature shown with its key
FormatFeatureKeyed(a) == a.key \o ": " \o a.value

FormatFeature(a) ==
    IF Len(a.value) < 15 /\ ~Contains(ToLower(a.value), FirstPiece(a.key, " "))
    THEN a.key \o ": " \o a.value
    ELSE a.value

\* Enumerable.Where(IsFeatureAttribute)
WhereFeature(list) == SelectSeq(list, IsFeatureAttribute)

\* the filtered attributes left in their input order
OrderByInput(list) == list

\* Enumerable.OrderBy(GetPriority): a stable sort on a key that is 0 or 1
OrderByPriority(list) ==
    LET First(a) == GetPriority(a.key) = 0
        Rest(a)  == GetPriority(a.key) # 0
    IN  SelectSeq(list, First) \o SelectSeq(list, Rest)

\* Enumerable.Take(n)
Take(list, n) == SubSeq(list, 1, IF Len(list) < n THEN Len(list) ELSE n)

GetFeatureHighlights(list) ==
    LET meaningfulAttrs == Take(OrderByPriority(WhereFeature(list)), 3)
    IN  IF Len(meaningfulAttrs) = 0 THEN ""
        ELSE "Features include "
             \o Join([i \in 1..Len(meaningfulAttrs) |-> FormatFeature(meaningfulAttrs[i])], ", ")
             \o ". "

\* a brand sentence that does not name the brand
GetBrandStatementUnnamed(m) ==
    IF MapHas(m, "brand") THEN "Built with quality and reliability. " ELSE ""

GetBrandStatement(m) ==
    IF MapHas(m, "brand")
    THEN "Built with " \o MapGet(m, "brand") \o " quality and reliability. "
    ELSE ""

GetWarrantyStatement(m) ==
    IF MapHas(m, "cs_manufacturer_warranty")
    THEN LET warrantySimple ==
                 FirstPiece(Replace(MapGet(m, "cs_manufacturer_warranty"), " limited warranty", ""), "/")
         IN  "Backed by " \o warrantySimple \o " warranty. "
    ELSE "Designed for demanding applications. "

\* the brand sentence put before the feature clause
ComposeDescriptionBrandFirst(pn, part, m, list, ty, tn) ==
    "The " \o pn \o " (Part# " \o part \o ") "
        \o GetOpeningStatement(m, ty, tn)
        \o GetBrandStatement(m)
        \o GetFeatureHighlights(list)
        \o GetWarrantyStatement(m)

\* the text BuildDescription has concatenated before it returns
ComposeDescription(pn, part, m, list, ty, tn) ==
    "The " \o pn \o " (Part# " \o part \o ") "
        \o GetOpeningStatement(m, ty, tn)
        \o GetFeatureHighlights(list)
        \o GetBrandStatement(m)
        \o GetWarrantyStatement(m)

BuildDescription(pn, part, m, list, ty, tn) ==
    Trim(ComposeDescription(pn, part, m, list, ty, tn))

\* DescriptionGenerationService.GenerateProductDescription
ServiceGenerateProductDescription(pn, part, attrs, ty, tn) ==
    LET parsed == ParseAttributes(attrs)
    IN  BuildDescription(pn, part, parsed.attrMap, parsed.attrList, ty, tn)

(***************************************************************************)
(* Strategy B inline: ProductDescriptionGeneratorTool.GenerateProductDescription *)
(***************************************************************************)
\* if (description.Length > 500) description = description.Substring(0, 497) + "..."
Truncate(text) ==
    IF Len(text) > MaxDescriptionLength
    THEN Substring(text, 0, TruncatedLength) \o "..."
    ELSE text

\* the inline variant has no type or tone and always takes the default opening
InlineCompose(pn, part, attrs) ==
    LET parsed == ParseAttributes(attrs)
    IN  ComposeDescription(pn, part, parsed.attrMap, parsed.attrList, "", "")

InlineGenerateProductDescription(pn, part, attrs) ==
    Trim(Truncate(InlineCompose(pn, part, attrs)))

(***************************************************************************)
(* Strategy C: plain summary (Program.cs)                                  *)
(***************************************************************************)
\* a summary that leaves the part number out
SummaryComposeWithoutPart(pn, part, attrs) ==
    (pn \o ". ")
        \o ("Key specifications: " \o Join(attrs, ", ") \o ".")

SummaryCompose(pn, part, attrs) ==
    (pn \o ", Part# " \o part \o ". ")
        \o ("Key specifications: " \o Join(attrs, ", ") \o ".")

SummaryGenerateProductDescription(pn, part, attrs) ==
    Truncate(SummaryCompose(pn, part, attrs))

(***************************************************************************)
(* JSON values and the JavaScript operations index.ts applies to them      *)
(***************************************************************************)
Undef == [t |-> "undef"]                 \* undefined: an absent property
JNull == [t |-> "null"]
JBool(b) == [t |-> "bool", b |-> b]
JNum(n) == [t |-> "num", n |-> n]
JStr(str) == [t |-> "str", s |-> str]
JArr(items) == [t |-> "arr", a |-> items]
JObj(props) == [t |-> "obj", o |-> props]  \* props: property name -> value
NotJson(text) == [t |-> "invalid", s |-> text]   \* a request body that is not JSON text
InvalidJson == NotJson("not-json")

NoProps == [k \in {} |-> Undef]

\* ToBoolean, as in if (body.parameters) and !params.productName
Truthy(v) ==
    CASE v.t = "undef" -> FALSE
      [] v.t = "null"  -> FALSE
      [] v.t = "bool"  -> v.b
      [] v.t = "num"   -> v.n # 0
      [] v.t = "str"   -> v.s # ""
      [] OTHER         -> TRUE

\* reading property k of a value that is neither null nor undefined
GetProp(v, k) ==
    CASE v.t = "obj" -> (IF k \in DOMAIN v.o THEN v.o[k] ELSE Undef)
      [] v.t = "arr" -> (IF k = "length" THEN JNum(Len(v.a)) ELSE Undef)
      [] v.t = "str" -> (IF k = "length" THEN JNum(Len(v.s)) ELSE Undef)
      [] OTHER       -> Undef

\* a || b
OrElse(a, b) == IF Truthy(a) THEN a ELSE b

Digits == <<"0", "1", "2", "3", "4", "5", "6", "7", "8", "9">>

\* Number.prototype.toString for an integer
RECURSIVE IntToStr(_)
IntToStr(n) ==
    IF n < 0 THEN "-" \o IntToStr(0 - n)
    ELSE IF n < 10 THEN Digits[n + 1]
    ELSE IntToStr(n \div 10) \o Digits[(n % 10) + 1]

\* ToString throws a TypeError on an object that carries its own, not
\* callable, "toString" property, and on an array that holds such an object
RECURSIVE ToStrThrows(_)
ToStrThrows(v) ==
    CASE v.t = "obj" -> "toString" \in DOMAIN v.o
      [] v.t = "arr" -> \E i \in 1..Len(v.a) : ToStrThrows(v.a[i])
      [] OTHER       -> FALSE

\* the first element of an array whose conversion throws
FirstThrowing(items) ==
    items[CHOOSE i \in 1..Len(items) :
              /\ ToStrThrows(items[i])
              /\ \A j \in 1..(i - 1) : ~ToStrThrows(items[j])]

\* The frames of the built-ins that are running when the conversion of v
\* throws: an array is converted by Array.prototype.toString, which calls
\* Array.prototype.join, which converts the elements in turn; an object is
\* converted without a frame.  Innermost first.
RECURSIVE ConversionFrames(_)
ConversionFrames(v) ==
    IF v.t = "arr" /\ ToStrThrows(v)
    THEN ConversionFrames(FirstThrowing(v.a))
         \o "\n    at Array.join (<anonymous>)\n    at Array.toString (<anonymous>)"
    ELSE ""

\* ToString of a value inside a template literal, where it does not throw
RECURSIVE ToStr(_)
ToStr(v) ==
    CASE v.t = "str"   -> v.s
      [] v.t = "num"   -> IntToStr(v.n)
      [] v.t = "bool"  -> (IF v.b THEN "true" ELSE "false")
      [] v.t = "null"  -> "null"
      [] v.t = "undef" -> "undefined"
      [] v.t = "arr"   ->
            Join([i \in 1..Len(v.a) |->
                     IF v.a[i].t \in {"null", "undef"} THEN "" ELSE ToStr(v.a[i])], ",")
      [] OTHER         -> "[object Object]"

(***************************************************************************)
(* ToNumber: the conversion the operator > applies to its operand          *)
(***************************************************************************)
NumberCap == 1000000   \* an integer above this value counts as this value

DigitChars == {"0", "1", "2", "3", "4", "5", "6", "7", "8", "9"}
HexDigits == <<"0", "1", "2", "3", "4", "5", "6", "7", "8", "9",
               "a", "b", "c", "d", "e", "f">>

AllCharsIn(s, set) == \A i \in 1..Len(s) : CharAt(s, i) \in set

\* the digits of the given base
DigitsOfBase(base) == {HexDigits[i] : i \in 1..base}

DigitValue(c) == (CHOOSE i \in 1..16 : HexDigits[i] = LowerChar(c)) - 1

\* an integer above NumberCap counts as NumberCap
Capped(n) == IF n > NumberCap THEN NumberCap ELSE n

\* the value of a string of digits, capped
RECURSIVE ValueOfDigits(_, _)
ValueOfDigits(s, base) ==
    IF Len(s) = 0 THEN 0
    ELSE Capped(ValueOfDigits(SubSeq(s, 1, Len(s) - 1), base) * base
                + DigitValue(CharAt(s, Len(s))))

\* the least element of a set of integers
Least(S) == CHOOSE i \in S : \A j \in S : i <= j

\* the first position of one of the characters in the text, or the position
\* after its end
FirstOf(chars, text) ==
    Least({i \in 1..Len(text) : CharAt(text, i) \in chars} \cup {Len(text) + 1})

\* the first position of a character not in chars, or the position after the end
FirstNotOf(chars, text) ==
    Least({i \in 1..Len(text) : CharAt(text, i) \notin chars} \cup {Len(text) + 1})

\* the text from position i on
From(text, i) == IF i > Len(text) THEN "" ELSE SubSeq(text, i, Len(text))

\* a Number as far as a comparison with a small integer sees it: its sign
\* and the decimal value 0.digits * 10^point it was written with, of which
\* int is the integer part
NaN == [kind |-> "nan", neg |-> FALSE, int |-> 0, digits |-> "", point |-> 0]
Infinite(neg) == [kind |-> "inf", neg |-> neg, int |-> NumberCap, digits |-> "", point |-> 0]
Finite(neg, int, digits, point) ==
    [kind |-> "fin", neg |-> neg, int |-> int, digits |-> digits, point |-> point]

\* an integer
Whole(neg, int) == Finite(neg, int, "", 0)

\* the integer part of 0.digits * 10^point
IntegerPart(digits, point) ==
    IF point <= 0 THEN 0
    ELSE IF point - Len(digits) >= 7 THEN NumberCap
    ELSE ValueOfDigits(IF point >= Len(digits)
                       THEN digits \o SubSeq("0000000", 1, point - Len(digits))
                       ELSE SubSeq(digits, 1, point), 10)

\* 0.digits * 10^point, where lead is the position of the first digit that
\* is not 0: nothing but zeros is 0, and so is a value below 10^-324, which
\* is less than half the smallest double
Located(neg, digits, point, lead) ==
    IF lead > Len(digits) \/ point - lead < -324
    THEN Whole(neg, 0)
    ELSE Finite(neg, IntegerPart(digits, point), digits, point)

\* the mantissa man, whose decimal point is at position dot (after the end
\* if it has none), times 10^e
Mantissa(neg, man, e, dot) ==
    IF /\ AllCharsIn(SubSeq(man, 1, dot - 1), DigitChars)
       /\ AllCharsIn(From(man, dot + 1), DigitChars)
       /\ Len(man) > (IF dot > Len(man) THEN 0 ELSE 1)
    THEN Located(neg, SubSeq(man, 1, dot - 1) \o From(man, dot + 1), dot - 1 + e,
                 FirstNotOf({"0"}, SubSeq(man, 1, dot - 1) \o From(man, dot + 1)))
    ELSE NaN

\* the value of the exponent part written after the e: an optional sign and digits
ExponentValue(ex) ==
    IF CharAt(ex, 1) = "-" THEN 0 - ValueOfDigits(From(ex, 2), 10)
    ELSE ValueOfDigits(From(ex, IF CharAt(ex, 1) = "+" THEN 2 ELSE 1), 10)

ExponentWellFormed(ex) ==
    /\ ex # ""
    /\ From(ex, IF CharAt(ex, 1) \in {"+", "-"} THEN 2 ELSE 1) # ""
    /\ AllCharsIn(From(ex, IF CharAt(ex, 1) \in {"+", "-"} THEN 2 ELSE 1), DigitChars)

\* StrDecimalLiteral without its sign: digits with an optional point, and an
\* optional exponent at position ei (after the end if there is none).  The
\* decimal value is kept as it is written; Exceeds rounds it.
DecimalToNumber(neg, u, ei) ==
    IF ei <= Len(u) /\ ~ExponentWellFormed(From(u, ei + 1))
    THEN NaN
    ELSE Mantissa(neg, SubSeq(u, 1, ei - 1),
                  IF ei <= Len(u) THEN ExponentValue(From(u, ei + 1)) ELSE 0,
                  FirstOf({"."}, SubSeq(u, 1, ei - 1)))

\* the digits of an integer literal with the prefix 0x, 0o or 0b
PrefixedToNumber(digits, base) ==
    IF digits # "" /\ AllCharsIn(ToLower(digits), DigitsOfBase(base))
    THEN Whole(FALSE, ValueOfDigits(digits, base))
    ELSE NaN

\* the text without the white space around it: empty, an unsigned literal of
\* base 16, 8 or 2, or a signed decimal literal or Infinity
TextToNumber(t) ==
    IF t = "" THEN Whole(FALSE, 0)
    ELSE IF Len(t) >= 2 /\ ToLower(SubSeq(t, 1, 2)) \in {"0x", "0o", "0b"}
    THEN PrefixedToNumber(From(t, 3),
                          CASE ToLower(SubSeq(t, 1, 2)) = "0x" -> 16
                            [] ToLower(SubSeq(t, 1, 2)) = "0o" -> 8
                            [] OTHER -> 2)
    ELSE IF From(t, IF CharAt(t, 1) \in {"+", "-"} THEN 2 ELSE 1) = "Infinity"
    THEN Infinite(CharAt(t, 1) = "-")
    ELSE DecimalToNumber(CharAt(t, 1) = "-",
                         From(t, IF CharAt(t, 1) \in {"+", "-"} THEN 2 ELSE 1),
                         FirstOf({"e", "E"}, From(t, IF CharAt(t, 1) \in {"+", "-"} THEN 2 ELSE 1)))

\* StringToNumber
StringToNumber(str) == TextToNumber(TrimJs(str))

\* ToNumber(ToPrimitive(v)) where ToPrimitive does not throw: an array
\* converts through its text, an object through "[object Object]"
ToNumber(v) ==
    CASE v.t = "num"   -> Whole(v.n < 0, Capped(IF v.n < 0 THEN 0 - v.n ELSE v.n))
      [] v.t = "bool"  -> Whole(FALSE, IF v.b THEN 1 ELSE 0)
      [] v.t = "null"  -> Whole(FALSE, 0)
      [] v.t \in {"str", "arr"} -> StringToNumber(IF v.t = "str" THEN v.s ELSE ToStr(v))
      [] OTHER         -> NaN

\* The digits after the decimal point of half the distance from an integer
\* to the next double above it: 2^-1075 above 0, 2^-53 above 1 and 2^-52
\* above 2 and 3.  A decimal value is converted to the nearest double, and a
\* value halfway between two doubles to the one with an even significand,
\* so the double is greater than the integer n if and only if the value is
\* greater than n plus this half.
HalfUlpAboveZero ==
    "000000000000000000000000000000000000000000000000000000000000"
    \o "000000000000000000000000000000000000000000000000000000000000"
    \o "000000000000000000000000000000000000000000000000000000000000"
    \o "000000000000000000000000000000000000000000000000000000000000"
    \o "000000000000000000000000000000000000000000000000000000000000"
    \o "000000000000000000000002470328229206232720882843964341106861"
    \o "825299013071623822127928412503377536351043759326499181808179"
    \o "961898982823477228588654633283551779698981993873980053909390"
    \o "631503565951557022639229085839244910518443593180284993653615"
    \o "250031937045767824921936562366986365848075700158576926990370"
    \o "631192827955855133292783433840935197801553124659726357957462"
    \o "276646527282722005637400648549997709659947045402082816622623"
    \o "785739345073633900796776193057750674017632467360096895134053"
    \o "553745851666113422376667860416215968046191446729184030053005"
    \o "753084904876539171138659164623952491262365388187963623937328"
    \o "042389101867234849766823508986338858792562830275599565752445"
    \o "550725518931369083625477918694866799496832404970582102851318"
    \o "5451396213837722826145437693412532098591327667236328125"

HalfUlpAboveOne ==
    "00000000000000011102230246251565404236316680908203125"

HalfUlpAboveTwo ==
    "0000000000000002220446049250313080847263336181640625"

\* the code compares with 0, 1 and 3
HalfUlpAbove(n) ==
    CASE n = 0 -> HalfUlpAboveZero
      [] n = 1 -> HalfUlpAboveOne
      [] n \in {2, 3} -> HalfUlpAboveTwo

\* the digit at the i-th place after the decimal point of 0.digits * 10^point
FractionDigit(x, i) ==
    IF x.point + i < 1 \/ x.point + i > Len(x.digits) THEN "0"
    ELSE CharAt(x.digits, x.point + i)

\* the digit at the i-th place of a string of digits after the decimal point
PlaceDigit(half, i) == IF i > Len(half) THEN "0" ELSE CharAt(half, i)

\* the first place after the decimal point where x differs from half, or 0
FirstDifference(x, half) ==
    Least({i \in 1..(Len(half) + Len(x.digits)) :
              FractionDigit(x, i) # PlaceDigit(half, i)} \cup {Len(half) + Len(x.digits) + 1})

\* the fraction of x is greater than 0.half, which differs from it first
\* at place i (nowhere if i is beyond the digits of both)
FractionAbove(x, half, i) ==
    /\ i <= Len(half) + Len(x.digits)
    /\ DigitValue(FractionDigit(x, i)) > DigitValue(PlaceDigit(half, i))

\* the double nearest to a Number is greater than the integer n in 0..3
Exceeds(x, n) ==
    /\ ~x.neg
    /\ \/ x.kind = "inf"
       \/ x.kind = "fin" /\ x.int > n
       \/ /\ x.kind = "fin" /\ x.int = n
          /\ \E i \in 1..Len(x.digits) : i > x.point /\ CharAt(x.digits, i) # "0"
          /\ FractionAbove(x, HalfUlpAbove(n), FirstDifference(x, HalfUlpAbove(n)))

\* v > n for an integer n >= 0, where the conversion of v does not throw
GreaterThan(v, n) == Exceeds(ToNumber(v), n)

\* JSON.stringify drops the properties whose value is undefined
RECURSIVE Stringify(_)
Stringify(v) ==
    CASE v.t = "obj" ->
            LET keep == {k \in DOMAIN v.o : v.o[k].t # "undef"}
            IN  JObj([k \in keep |-> Stringify(v.o[k])])
      [] v.t = "arr" ->
            JArr([i \in 1..Len(v.a) |->
                    IF v.a[i].t = "undef" THEN JNull ELSE Stringify(v.a[i])])
      [] OTHER -> v

(***************************************************************************)
(* Strategy A: ProductDescriptionGeneratorTool of index.ts                 *)
(***************************************************************************)
ToolName == "product-description-generator"
ToolVersion == "1.0.0"
ToolDescription ==
    "Generates comprehensive, marketing-ready product descriptions based on product name, part number, and attributes. Creates structured content with overview, features, specifications, and applications."

\* new ProductDescriptionGeneratorTool(): the module creates one tool when
\* it is loaded (index.ts, line 282) and every call of fetch uses it; its
\* fields are readonly and no method assigns to them
NewTool == [name |-> ToolName, description |-> ToolDescription, version |-> ToolVersion]

(***************************************************************************)
(* What the JavaScript runtime decides                                     *)
(*                                                                         *)
(* The handlers copy into their answers two texts that the language leaves *)
(* to the engine: the message of the errors the engine itself throws, and  *)
(* error.stack.  A worker runs on one runtime for its whole life, so the   *)
(* runtime is chosen with the initial state and never changes.  Three are  *)
(* modelled: "workerd", the Workers runtime running the bundled script,    *)
(* whose Request is native code; "node20", Node.js 20 running the compiled *)
(* module, whose Request is the body reader bundled with Node.js; and      *)
(* "node16", a V8 of the 9.x line with its older messages.  The programs   *)
(* in C# have no such runtime.                                             *)
(***************************************************************************)
Runtimes == {"workerd", "node20", "node16"}
NoRuntime == "none"

\* outcome of a call: a returned value, or an Error thrown in function `at`
\* under the frames `inner` of the built-ins the function was running
Return(v) ==
    [threw |-> FALSE, name |-> "", message |-> "", at |-> "", inner |-> "", value |-> v]
ThrowInside(n, msg, site, frames) ==
    [threw |-> TRUE, name |-> n, message |-> msg, at |-> site, inner |-> frames,
     value |-> Undef]
Throw(n, msg, site) == ThrowInside(n, msg, site, "")

\* the TypeError of a conversion of v to a primitive value at `site`
ConversionError(v, site) ==
    ThrowInside("TypeError", "Cannot convert object to primitive value", site,
                ConversionFrames(v))

\* the message of the TypeError for v.prop where v is null or undefined
NullishReadMessage(v, prop) ==
    IF runtime = "node16"
    THEN "Cannot read property '" \o prop \o "' of " \o ToStr(v)
    ELSE "Cannot read properties of " \o ToStr(v) \o " (reading '" \o prop \o "')"

\* the bodies that are not JSON, as sent
MalformedTexts == {"not-json", "", "{", "{\"a\":1,}"}

\* the message of the SyntaxError of JSON.parse, for the texts above
SyntaxErrorMessage(text) ==
    IF runtime = "node16"
    THEN CASE text = "not-json"        -> "Unexpected token o in JSON at position 1"
           [] text = ""                -> "Unexpected end of JSON input"
           [] text = "{"               -> "Unexpected end of JSON input"
           [] text = "{\"a\":1,}"      -> "Unexpected token } in JSON at position 7"
    ELSE CASE text = "not-json"        -> "Unexpected token 'o', \"not-json\" is not valid JSON"
           [] text = ""                -> "Unexpected end of JSON input"
           [] text = "{"               -> "Expected property name or '}' in JSON at position 1"
           [] text = "{\"a\":1,}"      -> "Expected double-quoted property name in JSON at position 7"

\* The frames of error.stack name a place in the script: its name, a line
\* and a column.  The script is index.ts with its type annotations blanked
\* out, so that every expression stays at its line and column of index.ts,
\* loaded as a module of the name below; the second variant is the file that
\* starts at line 357 of part_005, built and named the same way.  A frame
\* stands for a call at the name of the called property, a read of a
\* property at the name of the property, a comparison at its operator and a
\* conversion in a template literal at the converted expression.  The host
\* calls fetch from native code and contributes no frame above it.
Script == "index.mjs"

\* a frame of a function, of an arrow function without a name, and of a
\* built-in
Frame(fn, line, col) ==
    "\n    at " \o fn \o " (" \o Script \o ":" \o IntToStr(line) \o ":" \o IntToStr(col) \o ")"
ArrowFrame(line, col) ==
    "\n    at " \o Script \o ":" \o IntToStr(line) \o ":" \o IntToStr(col)
ForEachFrame == "\n    at Array.forEach (<anonymous>)"

\* the frames of the callers of execute, of generateDescription and of the
\* generators it calls at the given line (index.ts lines 384, 118, 153-182)
CallersOfExecute == Frame("Object.fetch", 384, 35)
CallersOfDescription ==
    Frame("ProductDescriptionGeneratorTool.execute", 118, 30) \o CallersOfExecute
CallersOfGenerator(line) ==
    Frame("ProductDescriptionGeneratorTool.generateDescription", line, 24)
    \o CallersOfDescription

\* the same for the second variant (part_005 lines 677, 478)
CallersOfExecuteV2 == Frame("Object.fetch", 321, 35)
CallersOfDescriptionV2 ==
    Frame("ProductDescriptionGeneratorTool.execute", 122, 30) \o CallersOfExecuteV2

\* the frames of the callback of attributes.forEach in the second variant
\* that throws at the given place (part_005 lines 506-516)
CallbackFramesV2(line, col) ==
    ArrowFrame(line, col) \o ForEachFrame
    \o Frame("ProductDescriptionGeneratorTool.generateDescription", 150, 16)
    \o CallersOfDescriptionV2

\* the frames on the call stack, innermost first, when `site` throws
CallChain(site) ==
    CASE site = "fetch" -> Frame("Object.fetch", 369, 18)
      [] site = "execute params" ->
            Frame("ProductDescriptionGeneratorTool.execute", 110, 17) \o CallersOfExecute
      [] site = "execute" ->
            Frame("ProductDescriptionGeneratorTool.execute", 111, 13) \o CallersOfExecute
      [] site = "generateDescription productName" ->
            Frame("ProductDescriptionGeneratorTool.generateDescription", 146, 25)
            \o CallersOfDescription
      [] site = "generateDescription partNumber" ->
            Frame("ProductDescriptionGeneratorTool.generateDescription", 148, 41)
            \o CallersOfDescription
      [] site = "generateOverview length" ->
            Frame("ProductDescriptionGeneratorTool.generateOverview", 198, 20)
            \o CallersOfGenerator(153)
      [] site = "generateOverview" ->
            Frame("ProductDescriptionGeneratorTool.generateOverview", 198, 27)
            \o CallersOfGenerator(153)
      [] site = "generateKeyFeatures length" ->
            Frame("ProductDescriptionGeneratorTool.generateKeyFeatures", 214, 20)
            \o CallersOfGenerator(158)
      [] site = "generateKeyFeatures" ->
            Frame("ProductDescriptionGeneratorTool.generateKeyFeatures", 214, 27)
            \o CallersOfGenerator(158)
      [] site = "generateKeyFeatures forEach" ->
            Frame("ProductDescriptionGeneratorTool.generateKeyFeatures", 215, 18)
            \o CallersOfGenerator(158)
      [] site = "generateKeyFeatures callback" ->
            ArrowFrame(216, 42) \o ForEachFrame
            \o Frame("ProductDescriptionGeneratorTool.generateKeyFeatures", 215, 18)
            \o CallersOfGenerator(158)
      [] site = "generateBenefits length" ->
            Frame("ProductDescriptionGeneratorTool.generateBenefits", 245, 20)
            \o CallersOfGenerator(177)
      [] site = "generateBenefits" ->
            Frame("ProductDescriptionGeneratorTool.generateBenefits", 245, 27)
            \o CallersOfGenerator(177)
      [] site = "generateApplications length" ->
            Frame("ProductDescriptionGeneratorTool.generateApplications", 267, 18)
            \o CallersOfGenerator(182)
      [] site = "generateApplications" ->
            Frame("ProductDescriptionGeneratorTool.generateApplications", 267, 25)
            \o CallersOfGenerator(182)
      [] site = "fetch V2" -> Frame("Object.fetch", 306, 18)
      [] site = "execute V2 params" ->
            Frame("ProductDescriptionGeneratorTool.execute", 110, 17) \o CallersOfExecuteV2
      [] site = "execute V2 missing" ->
            Frame("ProductDescriptionGeneratorTool.execute", 111, 13) \o CallersOfExecuteV2
      [] site = "execute V2 empty" ->
            Frame("ProductDescriptionGeneratorTool.execute", 116, 13) \o CallersOfExecuteV2
      [] site = "callback V2 indexOf" -> CallbackFramesV2(151, 31)
      [] site = "callback V2 substring" -> CallbackFramesV2(153, 26)
      [] site = "callback V2 toLowerCase" -> CallbackFramesV2(158, 35)
      [] site = "generateDescription V2 productName" ->
            Frame("ProductDescriptionGeneratorTool.generateDescription", 163, 30)
            \o CallersOfDescriptionV2
      [] site = "generateDescription V2 partNumber" ->
            Frame("ProductDescriptionGeneratorTool.generateDescription", 163, 52)
            \o CallersOfDescriptionV2
      [] OTHER -> ""

\* the frames of the body reader of Node.js 20 between JSON.parse and the
\* await of the script
BodyReaderFrames ==
    "\n    at parseJSONFromBytes (node:internal/deps/undici/undici:5880:19)"
    \o "\n    at successSteps (node:internal/deps/undici/undici:5861:27)"
    \o "\n    at fullyReadBody (node:internal/deps/undici/undici:4753:9)"
    \o "\n    at async consumeBody (node:internal/deps/undici/undici:5870:7)"

\* The frames under the first line of the stack of the SyntaxError of
\* `await request.json()`, which the host makes.  On Node.js 20 the body
\* reader calls JSON.parse and fetch is waiting for it at its await (line
\* 364 of index.ts, line 301 of the second variant).  On the Workers
\* runtime the body is read and parsed by native code, which has no frame.
JsonFrames(line) ==
    CASE runtime = "node20" ->
            "\n    at JSON.parse (<anonymous>)" \o BodyReaderFrames
            \o Frame("async Object.fetch", line, 22)
      [] runtime = "node16" -> "\n    at JSON.parse (<anonymous>)"
      [] OTHER -> ""

\* the frames under the first line of error.stack
StackFrames(site) ==
    CASE site = "json"    -> JsonFrames(364)
      [] site = "json V2" -> JsonFrames(301)
      [] OTHER            -> CallChain(site)

\* Error.stackTraceLimit of V8: error.stack holds this many frames at most
StackTraceLimit == 10

\* the text of the first StackTraceLimit frames; every frame starts a line
FirstFrames(frames) ==
    LET starts == {i \in 1..Len(frames) : CharAt(frames, i) = "\n"}
    IN  IF Cardinality(starts) <= StackTraceLimit THEN frames
        ELSE SubSeq(frames, 1,
                    (CHOOSE p \in starts :
                        Cardinality({q \in starts : q < p}) = StackTraceLimit) - 1)

\* error.stack: the name and the message, then the frames, innermost first
StackOf(err) ==
    err.name \o ": " \o err.message
    \o (IF err.inner = "" THEN StackFrames(err.at)
        ELSE FirstFrames(err.inner \o StackFrames(err.at)))

\* the elements attributes.forEach visits; only an array has forEach
AttributeItems(attrs) == IF attrs.t = "arr" THEN attrs.a ELSE <<>>

\* attributes.length > 0, where neither the read nor the conversion throws
HasAttributes(attrs) == GreaterThan(GetProp(attrs, "length"), 0)

\* ${attributes.length}
LengthText(attrs) == ToStr(GetProp(attrs, "length"))

\* what evaluating attributes.length > n throws: the read of length throws on
\* null and undefined, the conversion on a length that has no primitive value
LengthTestThrows(attrs) ==
    attrs.t \in {"null", "undef"} \/ ToStrThrows(GetProp(attrs, "length"))

LengthTestError(attrs, site) ==
    IF attrs.t \in {"null", "undef"}
    THEN Throw("TypeError", NullishReadMessage(attrs, "length"), site \o " length")
    ELSE ConversionError(GetProp(attrs, "length"), site)

generateOverview(pn, attrs) ==
    IF LengthTestThrows(attrs) THEN LengthTestError(attrs, "generateOverview")
    ELSE Return(
        ("The **" \o pn \o "** is a premium product designed to deliver exceptional performance and reliability. ")
        \o (IF HasAttributes(attrs)
            THEN "This product features " \o LengthText(attrs) \o " key attribute"
                 \o (IF GreaterThan(GetProp(attrs, "length"), 1) THEN "s" ELSE "")
                 \o " that make it stand out in its category. "
            ELSE "")
        \o ("Engineered with precision and built to last, the " \o pn
            \o " represents the perfect balance of quality, functionality, and value."))

\* the lines pushed for the attributes, or the three default lines
FeatureLines(attrs) ==
    IF HasAttributes(attrs)
    THEN [i \in 1..Len(AttributeItems(attrs)) |->
            IntToStr(i) \o ". **" \o ToStr(AttributeItems(attrs)[i])
            \o "** - Carefully selected to enhance product performance"]
    ELSE << "1. **High Quality Construction** - Built to last with premium materials",
            "2. **Reliable Performance** - Consistent results you can count on",
            "3. **Easy Integration** - Seamlessly fits into your workflow" >>

\* features.push(`${features.length + 1}. **Quality Assurance** ...`)
WithQualityAssurance(pn, features) ==
    Append(features, IntToStr(Len(features) + 1)
           \o ". **Quality Assurance** - Every " \o pn \o " undergoes rigorous testing")

\* features.push(`${features.length + 1}. **Customer Support** ...`)
WithCustomerSupport(features) ==
    Append(features, IntToStr(Len(features) + 1)
           \o ". **Customer Support** - Backed by comprehensive warranty and support")

\* what the call of forEach throws on a value without it, and what the
\* template literal of its callback throws on an element it cannot convert
FeaturesError(attrs) ==
    IF attrs.t # "arr"
    THEN Throw("TypeError", "attributes.forEach is not a function",
               "generateKeyFeatures forEach")
    ELSE ConversionError(FirstThrowing(attrs.a), "generateKeyFeatures callback")

\* key features whose two closing lines are both numbered from the length
\* of the list before either was pushed
generateKeyFeaturesRepeated(pn, attrs) ==
    IF LengthTestThrows(attrs) THEN LengthTestError(attrs, "generateKeyFeatures")
    ELSE IF HasAttributes(attrs) /\ (attrs.t # "arr" \/ ToStrThrows(attrs))
    THEN FeaturesError(attrs)
    ELSE Return(Join(Append(WithQualityAssurance(pn, FeatureLines(attrs)),
                            IntToStr(Len(FeatureLines(attrs)) + 1)
                            \o ". **Customer Support** - Backed by comprehensive warranty and support"),
                     "\n"))

generateKeyFeatures(pn, attrs) ==
    IF LengthTestThrows(attrs) THEN LengthTestError(attrs, "generateKeyFeatures")
    ELSE IF HasAttributes(attrs) /\ (attrs.t # "arr" \/ ToStrThrows(attrs))
    THEN FeaturesError(attrs)
    ELSE Return(Join(WithCustomerSupport(WithQualityAssurance(pn, FeatureLines(attrs))), "\n"))

generateBenefits(pn, attrs) ==
    LET benefits ==
            << "The **" \o pn \o "** has been carefully designed to meet the highest standards of quality and performance.",
               "",
               "**Benefits include:**",
               "- Superior quality and durability",
               "- Competitive pricing and value",
               "- Trusted by professionals worldwide",
               "- Comprehensive documentation and support" >>
    IN  IF LengthTestThrows(attrs) THEN LengthTestError(attrs, "generateBenefits")
        ELSE Return(Join(IF GreaterThan(GetProp(attrs, "length"), 3)
                         THEN Append(benefits, "- Extensive feature set with multiple configuration options")
                         ELSE benefits, "\n"))

generateApplications(attrs) ==
    IF LengthTestThrows(attrs) THEN LengthTestError(attrs, "generateApplications")
    ELSE Return(
        Join(<< "This product is ideal for:",
                "- Commercial applications",
                "- Industrial settings",
                "- Professional use cases",
                "- Integration with existing systems",
                "",
                IF HasAttributes(attrs)
                THEN "With its " \o LengthText(attrs)
                     \o " specialized attributes, this product adapts to various use cases and requirements."
                ELSE "Versatile design allows for use across multiple industries and applications." >>,
             "\n"))

\* the sections array of generateDescription around the overview and the key
\* features already generated
SectionsAround(pn, part, attrs, overview, features) ==
    << "# Product Description",
       "",
       "## " \o pn,
       "",
       "**Part Number:** " \o BackTick \o part \o BackTick \o "\n",
       "---\n",
       "## Overview\n",
       overview,
       "",
       "## Key Features\n",
       features,
       "",
       "## Technical Specifications\n",
       "**Product Name:** " \o pn \o "  ",
       "**Part Number:** " \o part \o "\n",
       "## Product Attributes\n" >>
    \o (IF HasAttributes(attrs)
        THEN [i \in 1..Len(AttributeItems(attrs)) |-> "- " \o ToStr(AttributeItems(attrs)[i])]
        ELSE << "- No additional attributes specified" >>)
    \o << "\n---\n",
          "## Why Choose This Product?\n",
          generateBenefits(pn, attrs).value,
          "",
          "## Product Applications\n",
          generateApplications(attrs).value,
          "\n---\n",
          "*Generated product description for " \o pn \o " (Part #: " \o part \o ")*" >>

\* the sections array of generateDescription when no push of it throws
DescriptionSections(pn, part, attrs) ==
    SectionsAround(pn, part, attrs,
                   generateOverview(pn, attrs).value, generateKeyFeatures(pn, attrs).value)

\* the description once the overview and the key features were generated:
\* what either threw, or the sections joined; what passes these two passes
\* the later pushes
DescriptionAround(pn, part, attrs, overview, features) ==
    IF overview.threw THEN overview
    ELSE IF features.threw THEN features
    ELSE Return(Join(SectionsAround(pn, part, attrs, overview.value, features.value), "\n"))

\* generateDescription(productName, partNumber, attributes): the template
\* literals of the header convert the two names to text, then the overview
\* and the key features are pushed
generateDescription(pn, part, attrs) ==
    IF ToStrThrows(pn) \/ ToStrThrows(part)
    THEN (IF ToStrThrows(pn) THEN ConversionError(pn, "generateDescription productName")
          ELSE ConversionError(part, "generateDescription partNumber"))
    ELSE DescriptionAround(ToStr(pn), ToStr(part), attrs,
                           generateOverview(ToStr(pn), attrs),
                           generateKeyFeatures(ToStr(pn), attrs))

\* the object execute returns around the description, or what
\* generateDescription threw
ExecuteResult(pn, part, count, text) ==
    IF text.threw THEN text
    ELSE Return(JObj([k \in {"content", "productName", "partNumber", "attributeCount"} |->
                        CASE k = "content"     -> JStr(text.value)
                          [] k = "productName" -> pn
                          [] k = "partNumber"  -> part
                          [] OTHER             -> count]))

\* ProductDescriptionGeneratorTool.execute(params): it reads its parameters
\* only and assigns to no field of the tool
execute(params) ==
    IF params.t \in {"null", "undef"}
    THEN Throw("TypeError", NullishReadMessage(params, "productName"), "execute params")
    ELSE IF ~Truthy(GetProp(params, "productName")) \/ ~Truthy(GetProp(params, "partNumber"))
    THEN Throw("Error",
               "Missing required parameters: productName and partNumber are required",
               "execute")
    ELSE ExecuteResult(GetProp(params, "productName"), GetProp(params, "partNumber"),
                       GetProp(OrElse(GetProp(params, "attributes"), JArr(<<>>)), "length"),
                       generateDescription(GetProp(params, "productName"),
                                           GetProp(params, "partNumber"),
                                           OrElse(GetProp(params, "attributes"), JArr(<<>>))))

(***************************************************************************)
(* The Cloudflare Workers request handler of index.ts                      *)
(***************************************************************************)

StrArr(strs) == JArr([i \in 1..Len(strs) |-> JStr(strs[i])])

corsHeaders ==
    { <<"Access-Control-Allow-Origin", "*">>,
      <<"Access-Control-Allow-Methods", "GET, POST, OPTIONS">>,
      <<"Access-Control-Allow-Headers", "Content-Type, Authorization, X-Opal-Request-Id">> }

\* the headers of a JSON response without the spread of corsHeaders
JsonHeadersWithoutCors == { <<"Content-Type", "application/json">> }

JsonHeaders == { <<"Content-Type", "application/json">> } \cup corsHeaders

\* new Response(JSON.stringify(value), { status, headers })
JsonResponse(status, value) ==
    [status |-> status, headers |-> JsonHeaders, body |-> Stringify(value)]

getDefinition ==
    JObj([name |-> JStr(tool.name),
         description |-> JStr(tool.description),
         version |-> JStr(tool.version),
         parameters |-> JArr(<<
            JObj([name |-> JStr("productName"),
                 type |-> JStr("string"),
                 description |-> JStr("The name of the product"),
                 required |-> JBool(TRUE),
                 example |-> JStr("Professional Drill Set")]),
            JObj([name |-> JStr("partNumber"),
                 type |-> JStr("string"),
                 description |-> JStr("The product part number or SKU"),
                 required |-> JBool(TRUE),
                 example |-> JStr("DRL-2024-PRO")]),
            JObj([name |-> JStr("attributes"),
                 type |-> JStr("array"),
                 description |-> JStr("List of product attributes, features, or specifications (e.g., [\"Color: Blue\", \"Power: 20V\", \"Material: Steel\"])"),
                 required |-> JBool(FALSE),
                 example |-> StrArr(<<"Color: Blue", "Power: 20V", "Weight: 3.5 lbs">>),
                 items |-> JObj([type |-> JStr("string")])]) >>)])

DiscoveryResponse ==
    JsonResponse(200,
        JObj([functions |-> JArr(<<
            JObj([name |-> GetProp(getDefinition, "name"),
                 description |-> GetProp(getDefinition, "description"),
                 version |-> GetProp(getDefinition, "version"),
                 parameters |-> GetProp(getDefinition, "parameters"),
                 endpoint |-> JStr("/"),
                 http_method |-> JStr("POST"),
                 auth_requirements |-> JArr(<<>>)]) >>)]))

HealthResponse ==
    JsonResponse(200,
        JObj([status |-> JStr("healthy"),
             tool |-> JStr(tool.name),
             version |-> JStr(tool.version),
             description |-> JStr(tool.description),
             sdk_pattern |-> JStr("optimizely-opal-tools-sdk"),
             endpoints |-> JObj([discovery |-> JStr("/discovery"),
                                health |-> JStr("/"),
                                execute |-> JStr("POST /")])]))

NotFoundResponse ==
    JsonResponse(404,
        JObj([error |-> JStr("Not Found"),
             message |-> JStr("Available endpoints: GET /discovery, GET / (health), POST / (execute)"),
             tool |-> JStr(tool.name),
             version |-> JStr(tool.version)]))

\* the catch block: every thrown value here is an Error, whose stack starts
\* with its name and message
ErrorResponse(err) ==
    JsonResponse(400,
        JObj([success |-> JBool(FALSE),
             error |-> JStr(err.message),
             details |-> JStr(StackOf(err)),
             tool |-> JStr(tool.name),
             version |-> JStr(tool.version)]))

\* the envelope whose metadata does not take attributeCount from the result
SuccessResponseStaleMetadata(result) ==
    JsonResponse(200,
        JObj([success |-> JBool(TRUE),
              result |-> result,
              content |-> GetProp(result, "content"),
              metadata |-> JObj([tool |-> JStr(tool.name),
                                 version |-> JStr(tool.version),
                                 productName |-> GetProp(result, "productName"),
                                 partNumber |-> GetProp(result, "partNumber"),
                                 attributeCount |-> JNum(0)])]))

SuccessResponse(result) ==
    JsonResponse(200,
        JObj([success |-> JBool(TRUE),
             result |-> result,
             content |-> GetProp(result, "content"),
             metadata |-> JObj([tool |-> JStr(tool.name),
                               version |-> JStr(tool.version),
                               productName |-> GetProp(result, "productName"),
                               partNumber |-> GetProp(result, "partNumber"),
                               attributeCount |-> GetProp(result, "attributeCount")])]))

\* await request.json()
RequestJson(body) ==
    IF body.t = "invalid"
    THEN Throw("SyntaxError", SyntaxErrorMessage(body.s), "json")
    ELSE Return(body)

\* await request.json() of the second variant (part_005, line 657)
RequestJsonV2(body) ==
    IF body.t = "invalid"
    THEN Throw("SyntaxError", SyntaxErrorMessage(body.s), "json V2")
    ELSE Return(body)

\* the chain without its input branch
ExtractParamsWithoutInput(body) ==
    IF Truthy(GetProp(body, "parameters")) THEN GetProp(body, "parameters")
    ELSE IF Truthy(GetProp(body, "arguments")) THEN GetProp(body, "arguments")
    ELSE body

\* the if / else-if chain that picks the parameter object out of the body
ExtractParams(body) ==
    IF Truthy(GetProp(body, "parameters")) THEN GetProp(body, "parameters")
    ELSE IF Truthy(GetProp(body, "arguments")) THEN GetProp(body, "arguments")
    ELSE IF Truthy(GetProp(body, "input")) THEN GetProp(body, "input")
    ELSE body

\* tool.execute(params) and the response built from its result, or from
\* the Error it throws
OutcomeResponse(outcome) ==
    IF outcome.threw THEN ErrorResponse(outcome) ELSE SuccessResponse(outcome.value)

ExecuteResponse(params) == OutcomeResponse(execute(params))

\* the POST / branch inside the try / catch of fetch
PostResponse(body) ==
    LET parsed == RequestJson(body)
    IN  IF parsed.threw THEN ErrorResponse(parsed)
        ELSE IF body.t = "null"
        THEN ErrorResponse(Throw("TypeError", NullishReadMessage(body, "parameters"),
                                 "fetch"))
        ELSE ExecuteResponse(ExtractParams(body))

\* fetch(request)
Fetch(req) ==
    IF req.method = "OPTIONS"
    THEN [status |-> 200, headers |-> corsHeaders, body |-> Undef]
    ELSE IF req.method = "GET" /\ req.path = "/discovery" THEN DiscoveryResponse
    ELSE IF req.method = "GET" /\ req.path = "/" THEN HealthResponse
    ELSE IF req.method = "POST" /\ req.path = "/" THEN PostResponse(req.body)
    ELSE NotFoundResponse

(***************************************************************************)
(* The first variant of the worker (part_005, lines 1-354)                 *)
(***************************************************************************)
corsHeadersV1 ==
    { <<"Access-Control-Allow-Origin", "*">>,
      <<"Access-Control-Allow-Methods", "GET, POST, OPTIONS">>,
      <<"Access-Control-Allow-Headers", "Content-Type, Authorization">> }

JsonResponseV1(status, value) ==
    [status |-> status,
     headers |-> { <<"Content-Type", "application/json">> } \cup corsHeadersV1,
     body |-> Stringify(value)]

\* createProductDescription: every test of the first variant is guarded
\* (attributes && attributes.length > n), so a falsy attributes counts as the
\* empty list; attributes.map comes first, then the template literals; its
\* sections join to the same text as those of index.ts
createProductDescription(pn, part, attrs) ==
    LET list == OrElse(attrs, JArr(<<>>))
    IN  IF LengthTestThrows(list) THEN LengthTestError(list, "createProductDescription")
        ELSE IF HasAttributes(list) /\ list.t # "arr"
        THEN Throw("TypeError", "attributes.map is not a function", "createProductDescription")
        ELSE IF (HasAttributes(list) /\ ToStrThrows(list)) \/ ToStrThrows(pn) \/ ToStrThrows(part)
        THEN Throw("TypeError", "Cannot convert object to primitive value",
                   "createProductDescription")
        ELSE Return(Join(DescriptionSections(ToStr(pn), ToStr(part), list), "\n"))

\* the ToolResponse around the description, or around what
\* createProductDescription threw
ToolResponseOf(text) ==
    IF text.threw
    THEN JObj([success |-> JBool(FALSE),
               error |-> JStr("Failed to generate product description"),
               details |-> JStr(text.message)])
    ELSE JObj([success |-> JBool(TRUE), content |-> JStr(text.value)])

\* generateProductDescription(params): a ToolResponse, never an exception;
\* the destructuring of its first line throws on null and undefined, inside
\* the try
generateProductDescription(params) ==
    IF params.t \in {"null", "undef"}
    THEN ToolResponseOf(Throw("TypeError",
             "Cannot destructure property 'productName' of 'params' as it is "
             \o ToStr(params) \o ".", "generateProductDescription"))
    ELSE IF ~Truthy(GetProp(params, "productName")) \/ ~Truthy(GetProp(params, "partNumber"))
    THEN JObj([success |-> JBool(FALSE),
               error |-> JStr("Missing required parameters"),
               details |-> JStr("Both productName and partNumber are required")])
    ELSE ToolResponseOf(createProductDescription(GetProp(params, "productName"),
                                                 GetProp(params, "partNumber"),
                                                 GetProp(params, "attributes")))

\* the params object built from a wrapper or from the body itself
PickParams(source) ==
    JObj([productName |-> GetProp(source, "productName"),
          partNumber |-> GetProp(source, "partNumber"),
          attributes |-> OrElse(GetProp(source, "attributes"), JArr(<<>>))])

InvalidFormatResponse(details) ==
    JsonResponseV1(400,
        JObj([success |-> JBool(FALSE),
              error |-> JStr("Invalid request format"),
              details |-> JStr(details)]))

ToolResponseV1(result) ==
    JsonResponseV1(IF Truthy(GetProp(result, "success")) THEN 200 ELSE 400, result)

\* generateProductDescription on the params picked from source, and the
\* response built from its ToolResponse
ExecuteResponseV1(source) ==
    ToolResponseV1(generateProductDescription(PickParams(source)))

\* the POST / branch with its own try / catch
PostResponseV1(body) ==
    LET parsed == RequestJson(body)
    IN  IF parsed.threw THEN InvalidFormatResponse(parsed.message)
        ELSE IF body.t = "null"
        THEN InvalidFormatResponse(NullishReadMessage(body, "parameters"))
        ELSE IF Truthy(GetProp(body, "parameters"))
        THEN ExecuteResponseV1(GetProp(body, "parameters"))
        ELSE IF Truthy(GetProp(body, "arguments"))
        THEN ExecuteResponseV1(GetProp(body, "arguments"))
        ELSE IF Truthy(GetProp(body, "productName"))
        THEN ExecuteResponseV1(body)
        ELSE InvalidFormatResponse("Expected productName and partNumber in request body")

\* the parameters array of the discovery answer
ParametersV1 ==
    JArr(<<
        JObj([name |-> JStr("productName"),
              type |-> JStr("string"),
              description |-> JStr("The name of the product"),
              required |-> JBool(TRUE)]),
        JObj([name |-> JStr("partNumber"),
              type |-> JStr("string"),
              description |-> JStr("The product part number or SKU"),
              required |-> JBool(TRUE)]),
        JObj([name |-> JStr("attributes"),
              type |-> JStr("array"),
              description |-> JStr("List of product attributes, features, or specifications (e.g., [\"Color: Blue\", \"Size: Large\", \"Material: Steel\"])"),
              required |-> JBool(FALSE)]) >>)

DiscoveryResponseV1 ==
    JsonResponseV1(200,
        JObj([functions |-> JArr(<<
            JObj([name |-> JStr("product-description-generator"),
                  description |-> JStr("Generates comprehensive product descriptions based on product name, part number, and attributes. Creates marketing-ready content with structured sections including overview, features, specifications, and applications."),
                  parameters |-> ParametersV1,
                  endpoint |-> JStr("/"),
                  http_method |-> JStr("POST"),
                  auth_requirements |-> JArr(<<>>)]) >>)]))

HealthResponseV1 ==
    JsonResponseV1(200,
        JObj([status |-> JStr("healthy"),
              tool |-> JStr("product-description-generator"),
              version |-> JStr("1.0.0"),
              description |-> JStr("Optimizely Opal tool for generating product descriptions")]))

NotFoundResponseV1 ==
    JsonResponseV1(404,
        JObj([error |-> JStr("Not Found"),
              message |-> JStr("Available endpoints: GET /discovery, GET / (health), POST / (generate)")]))

\* fetch(request) of the first variant
FetchV1(req) ==
    IF req.method = "OPTIONS"
    THEN [status |-> 200, headers |-> corsHeadersV1, body |-> Undef]
    ELSE IF req.method = "GET" /\ req.path = "/discovery" THEN DiscoveryResponseV1
    ELSE IF req.method = "GET" /\ req.path = "/" THEN HealthResponseV1
    ELSE IF req.method = "POST" /\ req.path = "/" THEN PostResponseV1(req.body)
    ELSE NotFoundResponseV1

(***************************************************************************)
(* The C# minimal-API program (Program.cs, lines 1-310): MapPost "/"       *)
(***************************************************************************)
\* StringBuilder.AppendLine(value) appends value and Environment.NewLine,
\* which is "\n" on a Unix host and "\r\n" on a Windows host; the host is
\* chosen with the initial state.  string.Join("\n", ...) and a "\n" written
\* in a literal stay "\n" on either host.
LineFeed == "\n"
NewLines == {LineFeed, "\r\n"}

\* sb.AppendLine(line) for each of the lines in turn, then sb.ToString()
AppendLines(lines) == Join([i \in 1..Len(lines) |-> lines[i] \o newLine], "")

GenerateOverview(pn, attrs) ==
    ("The **" \o pn \o "** is a premium product designed to deliver exceptional performance and reliability. ")
    \o (IF Len(attrs) > 0
        THEN "This product features " \o IntToStr(Len(attrs)) \o " key attribute"
             \o (IF Len(attrs) > 1 THEN "s" ELSE "")
             \o " that make it stand out in its category. "
        ELSE "")
    \o ("Engineered with precision and built to last, the " \o pn
        \o " represents the perfect balance of quality, functionality, and value.")

GenerateKeyFeatures(pn, attrs) ==
    LET features ==
            IF Len(attrs) > 0
            THEN [i \in 1..Len(attrs) |->
                    IntToStr(i) \o ". **" \o attrs[i]
                    \o "** - Carefully selected to enhance product performance"]
            ELSE << "1. **High Quality Construction** - Built to last with premium materials",
                    "2. **Reliable Performance** - Consistent results you can count on",
                    "3. **Easy Integration** - Seamlessly fits into your workflow" >>
        withQuality ==
            Append(features, IntToStr(Len(features) + 1)
                   \o ". **Quality Assurance** - Every " \o pn \o " undergoes rigorous testing")
        withSupport ==
            Append(withQuality, IntToStr(Len(withQuality) + 1)
                   \o ". **Customer Support** - Backed by comprehensive warranty and support")
    IN  Join(withSupport, "\n")

GenerateWhyChoose(pn, attrs) ==
    LET reasons ==
            << "The **" \o pn \o "** has been carefully designed to meet the highest standards of quality and performance.",
               "",
               "**Benefits include:**",
               "- Superior quality and durability",
               "- Competitive pricing and value",
               "- Trusted by professionals worldwide",
               "- Comprehensive documentation and support" >>
    IN  Join(IF Len(attrs) > 3
             THEN Append(reasons, "- Extensive feature set with multiple configuration options")
             ELSE reasons, "\n")

GenerateApplications(attrs) ==
    Join(<< "This product is ideal for:",
            "- Commercial applications",
            "- Industrial settings",
            "- Professional use cases",
            "- Integration with existing systems",
            "",
            IF Len(attrs) > 0
            THEN "With its " \o IntToStr(Len(attrs))
                 \o " specialized attributes, this product adapts to various use cases and requirements."
            ELSE "Versatile design allows for use across multiple industries and applications." >>,
         "\n")

\* the lines GenerateProductDescription appends, one AppendLine each
\* (Program.cs, 149-210)
ReportLines(pn, part, attrs) ==
    << "# Product Description", "",
       "## " \o pn, "",
       "**Part Number:** " \o BackTick \o part \o BackTick, "",
       "---", "",
       "## Overview", "",
       GenerateOverview(pn, attrs), "",
       "## Key Features", "",
       GenerateKeyFeatures(pn, attrs), "",
       "## Technical Specifications", "",
       "**Product Name:** " \o pn \o "  ",
       "**Part Number:** " \o part, "",
       "## Product Attributes", "" >>
    \o (IF Len(attrs) > 0
        THEN [i \in 1..Len(attrs) |-> "- " \o attrs[i]]
        ELSE << "- No additional attributes specified" >>)
    \o << "", "---", "",
          "## Why Choose This Product?", "",
          GenerateWhyChoose(pn, attrs), "",
          "## Product Applications", "",
          GenerateApplications(attrs), "",
          "---", "",
          "*Generated product description for " \o pn \o " (Part #: " \o part \o ")*" >>

\* GenerateProductDescription of the program (markdown report): sb.ToString()
ReportGenerateProductDescription(pn, part, attrs) ==
    AppendLines(ReportLines(pn, part, attrs))

\* [FromBody] ProductDescriptionRequest: a string property that is absent
\* keeps string.Empty, a null one is null; both are null-or-white-space
BoundString(v) == IF v.t = "str" THEN v.s ELSE ""

\* request.Attributes ?? new List<string>()
BoundList(v) == IF v.t = "arr" THEN [i \in 1..Len(v.a) |-> v.a[i].s] ELSE <<>>

\* the bodies the binder turns into a ProductDescriptionRequest
Bindable(body) ==
    /\ body.t = "obj"
    /\ DOMAIN body.o \subseteq {"productName", "partNumber", "attributes"}
    /\ GetProp(body, "productName").t \in {"undef", "null", "str"}
    /\ GetProp(body, "partNumber").t \in {"undef", "null", "str"}
    /\ \/ GetProp(body, "attributes").t \in {"undef", "null"}
       \/ /\ GetProp(body, "attributes").t = "arr"
          /\ \A i \in 1..Len(body.o.attributes.a) : body.o.attributes.a[i].t = "str"

\* Results.Ok / Results.BadRequest of a ToolResponse, serialised with the
\* null properties written out
ToolResponseResult(status, success, content, error, details) ==
    [status |-> status,
     headers |-> { <<"Content-Type", "application/json; charset=utf-8">> },
     body |-> JObj([success |-> JBool(success), content |-> content,
                    error |-> error, details |-> details])]

\* the MapPost "/" handler
MapPost(body) ==
    LET pn   == BoundString(GetProp(body, "productName"))
        part == BoundString(GetProp(body, "partNumber"))
        list == BoundList(GetProp(body, "attributes"))
    IN  IF IsNullOrWhiteSpace(pn) \/ IsNullOrWhiteSpace(part)
        THEN ToolResponseResult(400, FALSE, JNull,
                                JStr("Missing required parameters"),
                                JStr("Both productName and partNumber are required"))
        ELSE ToolResponseResult(200, TRUE,
                                JStr(ReportGenerateProductDescription(pn, part, list)),
                                JNull, JNull)

(***************************************************************************)
(* The C# program written after the SDK pattern (part_007): MapPost "/"    *)
(***************************************************************************)
\* the values GenerateProductDescription of part_007 hands to AppendLine
\* (part_007, 214-264): a blank line that Program.cs appends with an
\* AppendLine() of its own is a "\n" written in the value here
SdkReportLines(pn, part, attrs) ==
    << "# Product Description", "",
       "## " \o pn, "",
       "**Part Number:** " \o BackTick \o part \o BackTick \o "\n",
       "---\n",
       "## Overview\n",
       GenerateOverview(pn, attrs), "",
       "## Key Features\n",
       GenerateKeyFeatures(pn, attrs), "",
       "## Technical Specifications\n",
       "**Product Name:** " \o pn \o "  ",
       "**Part Number:** " \o part \o "\n",
       "## Product Attributes\n" >>
    \o (IF Len(attrs) > 0
        THEN [i \in 1..Len(attrs) |-> "- " \o attrs[i]]
        ELSE << "- No additional attributes specified" >>)
    \o << "\n---\n",
          "## Why Choose This Product?\n",
          GenerateWhyChoose(pn, attrs), "",
          "## Product Applications\n",
          GenerateApplications(attrs),
          "\n---\n",
          "*Generated product description for " \o pn \o " (Part #: " \o part \o ")*" >>

\* GenerateProductDescription of part_007: sb.ToString()
SdkGenerateProductDescription(pn, part, attrs) ==
    AppendLines(SdkReportLines(pn, part, attrs))

\* Results.Ok(new ToolResponse { Success, Result, Content, Metadata })
SdkSuccessResult(pn, part, count, text) ==
    [status |-> 200,
     headers |-> { <<"Content-Type", "application/json; charset=utf-8">> },
     body |-> JObj([success |-> JBool(TRUE),
                    result |-> JObj([content |-> JStr(text),
                                     productName |-> JStr(pn),
                                     partNumber |-> JStr(part),
                                     attributeCount |-> JNum(count)]),
                    content |-> JStr(text),
                    metadata |-> JObj([tool |-> JStr("product-description-generator"),
                                       version |-> JStr("1.0.0"),
                                       productName |-> JStr(pn),
                                       partNumber |-> JStr(part),
                                       attributeCount |-> JNum(count)]),
                    error |-> JNull,
                    details |-> JNull])]

SdkFailureResult(error, details) ==
    [status |-> 400,
     headers |-> { <<"Content-Type", "application/json; charset=utf-8">> },
     body |-> JObj([success |-> JBool(FALSE), result |-> JNull, content |-> JNull,
                    metadata |-> JNull, error |-> JStr(error), details |-> JStr(details)])]

\* the MapPost "/" handler of part_007
MapPostSdk(body) ==
    LET pn   == BoundString(GetProp(body, "productName"))
        part == BoundString(GetProp(body, "partNumber"))
        list == BoundList(GetProp(body, "attributes"))
    IN  IF IsNullOrWhiteSpace(pn) \/ IsNullOrWhiteSpace(part)
        THEN SdkFailureResult("Missing required parameters",
                              "Both productName and partNumber are required")
        ELSE SdkSuccessResult(pn, part, Len(list),
                              SdkGenerateProductDescription(pn, part, list))

(***************************************************************************)
(* Inputs                                                                  *)
(***************************************************************************)
Alphabet == {"A", ":", " "}

RECURSIVE StringsOfLen(_)
StringsOfLen(n) ==
    IF n = 0 THEN {""}
    ELSE {s \o c : s \in StringsOfLen(n - 1), c \in Alphabet}

\* the examples of the documentation, beside every short string over Alphabet
ExampleAttributes ==
    {"A: B: C", "Just Text", "Brand: DEWALT", "brand: Bosch", "a:b",
     "Brand:\fDEWALT", NextLine \o "Brand:" \o NoBreakSpace \o "DEWALT"}

\* keys in Greek: the capital sigma has two lower-case forms, and a
\* comparison that ignores case takes all three letters for one
GreekAttributes == {"Σize: Large", "ΑΣ: 1", "ασ: 2", "σ: 3", "ς: 4"}

AttributeStrings ==
    UNION {StringsOfLen(n) : n \in 0..MaxLen} \cup ExampleAttributes \cup GreekAttributes

NoRequest == [method |-> "", path |-> "", body |-> [t |-> "undef"]]
NoResponse == [status |-> 0, headers |-> {}, body |-> [t |-> "undef"]]

(***************************************************************************)
(* Parser specification: a caller builds an attribute list and parses it   *)
(***************************************************************************)
InitParse ==
    /\ pc = "input"
    /\ request = NoRequest
    /\ response = NoResponse
    /\ productName = ""
    /\ partNumber = ""
    /\ attributes = <<>>
    /\ type = ""
    /\ tone = ""
    /\ attrMap = EmptyMap
    /\ attrList = <<>>
    /\ description = ""
    /\ calls = <<>>
    /\ runtime = NoRuntime
    /\ newLine = LineFeed
    /\ tool = NewTool
    /\ PriorityKeys = NewPriorityKeys

\* the caller appends one more string to the list it will pass
AddAttribute ==
    /\ pc = "input"
    /\ Len(attributes) < MaxAttrs
    /\ \E s \in AttributeStrings : attributes' = Append(attributes, s)
    /\ UNCHANGED <<tool, PriorityKeys,
                   runtime, newLine, calls, pc, request, response, productName, partNumber, type, tone,
                   attrMap, attrList, description>>

\* DescriptionGenerationService.ParseAttributes(attributes)
DoParseAttributes ==
    /\ pc = "input"
    /\ LET r == ParseAttributes(attributes)
       IN  /\ attrMap' = r.attrMap
           /\ attrList' = r.attrList
    /\ pc' = "parsed"
    /\ UNCHANGED <<tool, PriorityKeys,
                   runtime, newLine, calls, request, response, productName, partNumber, attributes,
                   type, tone, description>>

\* the split variant (part_005, lines 881-888): its forEach fills the Map
\* and nothing else; the variant has no list of triples
DoParseSplit ==
    /\ pc = "input"
    /\ attrMap' = ParseAttributesSplit(attributes)
    /\ attrList' = <<>>
    /\ pc' = "parsedSplit"
    /\ UNCHANGED <<tool, PriorityKeys,
                   runtime, newLine, calls, request, response, productName, partNumber, attributes,
                   type, tone, description>>

\* the parser of the second TypeScript variant (part_005, lines 503-516)
DoParseV2 ==
    /\ pc = "input"
    /\ LET r == ParseAttributesV2(attributes)
       IN  /\ attrMap' = r.attrMap
           /\ attrList' = r.attrList
    /\ pc' = "parsedV2"
    /\ UNCHANGED <<tool, PriorityKeys,
                   runtime, newLine, calls, request, response, productName, partNumber, attributes,
                   type, tone, description>>

NextParse == AddAttribute \/ DoParseAttributes \/ DoParseSplit \/ DoParseV2

SpecParse == InitParse /\ [][NextParse]_vars

TypeOKParse == pc \in {"input", "parsed", "parsedSplit", "parsedV2"}

(***************************************************************************)
(* Properties of the parser                                                *)
(***************************************************************************)
HasColon(s) == \E i \in 1..Len(s) : CharAt(s, i) = ":"

\* position (1-based) of the first colon of a string that has one
FirstColon(s) ==
    CHOOSE i \in 1..Len(s) :
        CharAt(s, i) = ":" /\ \A j \in 1..(i - 1) : CharAt(s, j) # ":"

\* the string has a colon and its first colon is not its first character
Keyed(s) == HasColon(s) /\ FirstColon(s) > 1

RawKey(s) == Trim(SubSeq(s, 1, FirstColon(s) - 1))
RawValue(s) == Trim(SubSeq(s, FirstColon(s) + 1, Len(s)))

\* the same with the trim() of JavaScript
RawKeyJs(s) == TrimJs(SubSeq(s, 1, FirstColon(s) - 1))
RawValueJs(s) == TrimJs(SubSeq(s, FirstColon(s) + 1, Len(s)))

\* the key the called parser makes of a keyed string
KeyOf(s) == IF pc = "parsed" THEN ToLower(RawKey(s)) ELSE ToLowerJs(RawKeyJs(s))

\* the value the called parser makes of a keyed string
ValueOf(s) == IF pc = "parsed" THEN RawValue(s) ELSE RawValueJs(s)

\* the lookup of the called parser takes the keys a and b for one key: the
\* dictionary of C# by its comparer, the Map of JavaScript if they are equal
OneKey(a, b) == IF pc = "parsed" THEN SameKey(a, b) ELSE a = b

\* the lookup of the called parser has the key / its value for the key
Has(key) == IF pc = "parsed" THEN MapHas(attrMap, key) ELSE MapHasJs(attrMap, key)
Get(key) == IF pc = "parsed" THEN MapGet(attrMap, key) ELSE attrMap[key]

\* last position of the input whose string is keyed with the key k
LastKeyed(attrs, k) ==
    CHOOSE i \in 1..Len(attrs) :
        /\ Keyed(attrs[i]) /\ OneKey(KeyOf(attrs[i]), k)
        /\ \A j \in (i + 1)..Len(attrs) :
              ~(Keyed(attrs[j]) /\ OneKey(KeyOf(attrs[j]), k))

\* C5: each of the three parsers the claim cites (ParseAttributes, the
\* parser of the second variant and the parser of the split variant) yields
\* exactly one (key, value, original) triple per input string, in input
\* order, and original is the input string unmodified.
C5_ParserTotality ==
    pc \in {"parsed", "parsedSplit", "parsedV2"} =>
        /\ Len(attrList) = Len(attributes)
        /\ \A i \in 1..Len(attributes) :
              /\ DOMAIN attrList[i] = {"key", "value", "original"}
              /\ attrList[i].original = attributes[i]

\* C6: a string is split on its first colon only: the key is the
\* lower-cased trimmed text before it, the value all trimmed text after it
\* (later colons included), and the attribute is in the lookup.
C6_FirstColonSplit ==
    pc \in {"parsed", "parsedSplit", "parsedV2"} =>
        \A i \in 1..Len(attributes) :
            Keyed(attributes[i]) =>
                LET k == KeyOf(attributes[i])
                IN  /\ Has(k)
                    /\ Get(k) = ValueOf(attributes[LastKeyed(attributes, k)])
                    /\ pc \in {"parsed", "parsedV2"} =>
                          /\ attrList[i].key = k
                          /\ attrList[i].value = ValueOf(attributes[i])

\* C7: a string with no colon, or whose first colon is its first
\* character, is unkeyed: key = the whole string lower-cased, value = the
\* whole string with its case preserved.
C7_UnkeyedFallback ==
    pc = "parsed" =>
        \A i \in 1..Len(attributes) :
            (~HasColon(attributes[i]) \/ CharAt(attributes[i], 1) = ":") =>
                /\ attrList[i].key = ToLower(attributes[i])
                /\ attrList[i].value = attributes[i]

C7_Witness ==
    /\ pc = "parsed"
    /\ Len(attributes) = 2
    /\ attributes[1] = "Just Text"
    /\ attrList[1].key = "just text"
    /\ Len(attributes[2]) > 1
    /\ CharAt(attributes[2], 1) = ":"

\* C8 as stated: a key is in the lookup iff some triple of the ordered
\* list has that key, and the lookup maps it to the value of the last such
\* triple.  The lookup compares keys by its comparer, and so does "has
\* that key".
C8_LookupIndexesEveryTriple ==
    pc = "parsed" =>
        /\ \A i \in 1..Len(attrList) : MapHas(attrMap, attrList[i].key)
        /\ \A k \in DOMAIN attrMap :
              /\ \E i \in 1..Len(attrList) : SameKey(attrList[i].key, k)
              /\ LET last == CHOOSE i \in 1..Len(attrList) :
                                /\ SameKey(attrList[i].key, k)
                                /\ \A j \in (i + 1)..Len(attrList) :
                                      ~SameKey(attrList[j].key, k)
                 IN  attrMap[k] = attrList[last].value

\* C8 amended: a key is in the lookup iff some keyed triple (one whose
\* original string has its first colon after position 0) has that key, and
\* the lookup maps it to the value of the last such keyed triple; unkeyed
\* triples are in the list only.  No two keys of the lookup are equal by
\* its comparer.
C8_LookupIndexesKeyedTriples ==
    pc = "parsed" =>
        /\ \A i \in 1..Len(attrList) :
              Keyed(attrList[i].original) => MapHas(attrMap, attrList[i].key)
        /\ \A k \in DOMAIN attrMap :
              /\ \E i \in 1..Len(attrList) :
                    Keyed(attrList[i].original) /\ SameKey(attrList[i].key, k)
              /\ LET last == CHOOSE i \in 1..Len(attrList) :
                                /\ Keyed(attrList[i].original) /\ SameKey(attrList[i].key, k)
                                /\ \A j \in (i + 1)..Len(attrList) :
                                      ~(Keyed(attrList[j].original)
                                        /\ SameKey(attrList[j].key, k))
                 IN  attrMap[k] = attrList[last].value
        /\ \A k1, k2 \in DOMAIN attrMap : SameKey(k1, k2) => k1 = k2

\* a keyed and an unkeyed triple share a key, and the lookup holds the keyed value
C8_Witness ==
    /\ pc = "parsed"
    /\ \E i, j \in 1..Len(attrList) :
          /\ Keyed(attrList[i].original)
          /\ ~Keyed(attrList[j].original)
          /\ i < j
          /\ attrList[i].key = attrList[j].key
          /\ MapGet(attrMap, attrList[i].key) = attrList[i].value
          /\ attrList[i].value # attrList[j].value

(***************************************************************************)
\* c repeated n times
RECURSIVE Rep(_, _)
Rep(c, n) ==
    IF n <= 0 THEN ""
    ELSE IF n = 1 THEN c
    ELSE Rep(c, n \div 2) \o Rep(c, n - (n \div 2))

ProductNames ==
    {"Drill"} \cup {"Drill" \o Rep("x", n) : n \in (MaxPad - PadWindow)..MaxPad}

PartNumbers == {"P-1"}

DescribePool ==
    {"Brand: DEWALT", "Battery Voltage (V): 20", "Capacity: 28 oz.",
     "Cordless / Corded: Cordless", "Charger Included: Yes", "Just Text",
     "cs_manufacturer_warranty: 3 year limited warranty / 1 year free service"}

ReadmeAttributes ==
    <<"Brand: DEWALT", "Battery Voltage (V): 20", "Capacity: 28 oz.",
      "Cartridge Type: 27-28 oz. Adhesive 10:1", "Cordless / Corded: Cordless">>

DescribeLists ==
    UNION {[1..n -> DescribePool] : n \in 0..MaxDescribeAttrs} \cup {ReadmeAttributes}

Types == {"general", "ecommerce", "Ecommerce"}
Tones == {"professional", "casual"}

InitDescribe ==
    /\ pc = "called"
    /\ request = NoRequest
    /\ response = NoResponse
    /\ productName \in ProductNames
    /\ partNumber \in PartNumbers
    /\ attributes \in DescribeLists
    /\ type = ""
    /\ tone = ""
    /\ attrMap = EmptyMap
    /\ attrList = <<>>
    /\ description = ""
    /\ calls = <<>>
    /\ runtime = NoRuntime
    /\ newLine = LineFeed
    /\ tool = NewTool
    /\ PriorityKeys = NewPriorityKeys

\* DescriptionGenerationService.GenerateProductDescription(productName, partNumber, attributes, type, tone)
GenerateService ==
    /\ pc = "called"
    /\ \E ty \in Types, tn \in Tones :
          /\ type' = ty
          /\ tone' = tn
          /\ description' =
                ServiceGenerateProductDescription(productName, partNumber, attributes, ty, tn)
    /\ attrMap' = ParseAttributes(attributes).attrMap
    /\ attrList' = ParseAttributes(attributes).attrList
    /\ pc' = "service"
    /\ UNCHANGED <<tool, PriorityKeys,
                   runtime, newLine, calls, request, response, productName, partNumber, attributes>>

\* ProductDescriptionGeneratorTool.GenerateProductDescription (inline Strategy B)
GenerateInline ==
    /\ pc = "called"
    /\ description' = InlineGenerateProductDescription(productName, partNumber, attributes)
    /\ attrMap' = ParseAttributes(attributes).attrMap
    /\ attrList' = ParseAttributes(attributes).attrList
    /\ pc' = "inline"
    /\ UNCHANGED <<tool, PriorityKeys,
                   runtime, newLine, calls, request, response, productName, partNumber, attributes, type, tone>>

\* GenerateProductDescription of Program.cs (Strategy C)
GenerateSummary ==
    /\ pc = "called"
    /\ description' = SummaryGenerateProductDescription(productName, partNumber, attributes)
    /\ pc' = "summary"
    /\ UNCHANGED <<tool, PriorityKeys,
                   runtime, newLine, calls, request, response, productName, partNumber, attributes, type, tone,
                   attrMap, attrList>>

NextDescribe == GenerateService \/ GenerateInline \/ GenerateSummary

SpecDescribe == InitDescribe /\ [][NextDescribe]_vars

\* the text a strategy has put together before it truncates or trims it
Composed ==
    IF pc = "service"
    THEN ComposeDescription(productName, partNumber, attrMap, attrList, type, tone)
    ELSE IF pc = "inline" THEN InlineCompose(productName, partNumber, attributes)
    ELSE SummaryCompose(productName, partNumber, attributes)

EndsWith(s, suffix) ==
    Len(s) >= Len(suffix) /\ SubSeq(s, Len(s) - Len(suffix) + 1, Len(s)) = suffix

\* C10: for the service, the inline Strategy B and Strategy C, whenever the
\* composed description is longer than 500 characters the returned content
\* is exactly 500 characters long and ends with "...".
C10_TruncationLaw ==
    pc \in {"service", "inline", "summary"} =>
        (Len(Composed) > MaxDescriptionLength =>
            /\ Len(description) = MaxDescriptionLength
            /\ EndsWith(description, "..."))

\* the same law for the two strategies that do truncate
C10_TruncationLawInlineSummary ==
    pc \in {"inline", "summary"} =>
        (Len(Composed) > MaxDescriptionLength =>
            /\ Len(description) = MaxDescriptionLength
            /\ EndsWith(description, "..."))

(***************************************************************************)
(* Worker specification: a client sends one request, a deployed variant of *)
(* the worker answers it                                                   *)
(***************************************************************************)
MaxRequestAttrs == 4

RequestAttribute(i) == "Spec " \o IntToStr(i) \o ": Value " \o IntToStr(i)

AttributeArrays ==
    {StrArr([i \in 1..n |-> RequestAttribute(i)]) : n \in 0..MaxRequestAttrs}

\* a JSON object with the properties of rec that are there
Fields(rec) ==
    JObj([k \in {j \in DOMAIN rec : rec[j].t # "undef"} |-> rec[k]])

OddObject == JObj([k \in {"toString"} |-> JStr("x")])

ProductNameValues ==
    {Undef, JNull, JStr(""), JStr(" "), JStr("Widget"), JNum(0), JNum(5), JObj(NoProps),
     OddObject}

PartNumberValues == {Undef, JStr(""), JStr(" "), JStr("W-1")}

AttributeValues ==
    AttributeArrays \cup
    {Undef, JNull, JStr("abc"), JNum(5), JObj(NoProps),
     JObj([k \in {"length"} |-> JNum(2)]),
     JObj([k \in {"length"} |-> JStr("3")]),
     JObj([k \in {"length"} |-> JStr("1.00000000000000000000001")]),
     JObj([k \in {"length"} |-> JStr("3.0000000000000001")]),
     JObj([k \in {"length"} |-> JStr("2.470329e-324")]),
     JObj([k \in {"length"} |-> JBool(TRUE)]),
     JObj([k \in {"length"} |-> JArr(<<JNum(2)>>)]),
     JObj([k \in {"length"} |-> OddObject]),
     JArr(<<OddObject>>), JArr(<<JArr(<<OddObject>>)>>), JArr(<<JNull, JNum(1)>>)}

\* objects that carry nothing but the three fields of the parameter schema
ParamObjects ==
    {Fields([productName |-> a, partNumber |-> b, attributes |-> c]) :
        a \in ProductNameValues, b \in PartNumberValues, c \in AttributeValues}

WrapperKeys == {"parameters", "arguments", "input"}

WidgetParams ==
    Fields([productName |-> JStr("Widget"), partNumber |-> JStr("W-1"),
            attributes |-> StrArr(<<RequestAttribute(1)>>)])
OtherParams == Fields([productName |-> JStr("Other"), partNumber |-> JStr("O-2")])
PartlyParams == Fields([productName |-> JStr("Partly")])

WrapperValues ==
    {Undef, JNull, JBool(FALSE), JNum(0), JStr(""), JStr("s"), JArr(<<>>),
     JObj(NoProps), WidgetParams, OtherParams, PartlyParams}

MixedBodies ==
    {Fields([parameters |-> w1, arguments |-> w2, input |-> w3,
             productName |-> f1, partNumber |-> f2, attributes |-> f3]) :
        w1 \in WrapperValues, w2 \in WrapperValues, w3 \in WrapperValues,
        f1 \in {Undef, JStr("Flat")}, f2 \in {Undef, JStr("F-3")},
        f3 \in {Undef, StrArr(<<"Flat attribute">>)}}

Wrapped(w, p) == JObj([k \in {w} |-> p])

\* the four shapes in which a parameter object can be sent
Shapes(p) == {p} \cup {Wrapped(w, p) : w \in WrapperKeys}

OtherBodies ==
    {NotJson(text) : text \in MalformedTexts}
    \cup {JNull, JNum(1), JStr("text"), JBool(TRUE), JArr(<<>>), JArr(<<WidgetParams>>)}

Bodies ==
    MixedBodies \cup UNION {Shapes(p) : p \in ParamObjects} \cup OtherBodies

Requests ==
    {[method |-> "POST", path |-> "/", body |-> b] : b \in Bodies}
    \cup {[method |-> m, path |-> pa, body |-> Undef] :
            m \in {"GET", "OPTIONS", "PUT"}, pa \in {"/", "/discovery", "/other"}}
    \cup {[method |-> "POST", path |-> "/other", body |-> WidgetParams]}

(***************************************************************************)
(* A call of fetch, step by step                                           *)
(*                                                                         *)
(* fetch is an async function: a call runs without interruption up to an   *)
(* await and gives the event loop back there.  index.ts awaits             *)
(* request.json() (line 364) and tool.execute(params) (line 384); the      *)
(* first variant of part_005 awaits request.json() (line 273) and          *)
(* generateProductDescription(params) (line 302).  A request that is not   *)
(* POST / meets no await and is answered by the step that receives it.     *)
(***************************************************************************)
NoInput ==
    [productName |-> "", partNumber |-> "", attributes |-> <<>>, type |-> "", tone |-> ""]

NoOutcome == Return(Undef)

\* the locals of a call that has just been made
NewCall ==
    [request |-> NoRequest, input |-> NoInput, stage |-> "new", outcome |-> NoOutcome,
     attrMap |-> EmptyMap, attrList |-> <<>>, response |-> NoResponse, description |-> ""]

\* the request a call works on is the parameter of its own call of fetch
RequestOf(cs, i) == cs[i].request

\* the branches of fetch that return without an await, for a request that
\* is not POST /
DirectResponse(req) ==
    IF req.method = "OPTIONS"
    THEN [status |-> 200, headers |-> corsHeaders, body |-> Undef]
    ELSE IF req.method = "GET" /\ req.path = "/discovery" THEN DiscoveryResponse
    ELSE IF req.method = "GET" /\ req.path = "/" THEN HealthResponse
    ELSE NotFoundResponse

DirectResponseV1(req) ==
    IF req.method = "OPTIONS"
    THEN [status |-> 200, headers |-> corsHeadersV1, body |-> Undef]
    ELSE IF req.method = "GET" /\ req.path = "/discovery" THEN DiscoveryResponseV1
    ELSE IF req.method = "GET" /\ req.path = "/" THEN HealthResponseV1
    ELSE NotFoundResponseV1

\* fetch(request) from its entry to its first await or its return
Enter(req) ==
    IF req.method = "POST" /\ req.path = "/"
    THEN [NewCall EXCEPT !.request = req, !.stage = "awaitingJson"]
    ELSE [NewCall EXCEPT !.request = req, !.stage = "responded", !.response = DirectResponse(req)]

\* the same steps if nothing caught what they throw: the runtime answers
\* with its own error page
AfterJsonUncaught(cs, i) ==
    LET body   == RequestOf(cs, i).body
        parsed == RequestJson(body)
    IN  IF parsed.threw \/ body.t = "null"
        THEN [cs[i] EXCEPT !.stage = "responded",
                           !.response = [status |-> 500, headers |-> {}, body |-> Undef]]
        ELSE [cs[i] EXCEPT !.stage = "awaitingExecute",
                           !.outcome = execute(ExtractParams(body))]

\* the call from the settling of request.json() to `await tool.execute(params)`,
\* or to the catch block
AfterJson(cs, i) ==
    LET body   == RequestOf(cs, i).body
        parsed == RequestJson(body)
    IN  IF parsed.threw
        THEN [cs[i] EXCEPT !.stage = "responded", !.response = ErrorResponse(parsed)]
        ELSE IF body.t = "null"
        THEN [cs[i] EXCEPT !.stage = "responded",
                           !.response = ErrorResponse(Throw("TypeError",
                               NullishReadMessage(body, "parameters"), "fetch"))]
        ELSE [cs[i] EXCEPT !.stage = "awaitingExecute",
                           !.outcome = execute(ExtractParams(body))]

\* the call from the settling of tool.execute(params) to its return
AfterExecute(cs, i) ==
    [cs[i] EXCEPT !.stage = "responded",
                  !.outcome = NoOutcome,
                  !.response = OutcomeResponse(cs[i].outcome)]

\* the call of the first variant from its entry to its first await or return
EnterV1(req) ==
    IF req.method = "POST" /\ req.path = "/"
    THEN [NewCall EXCEPT !.request = req, !.stage = "awaitingJson"]
    ELSE [NewCall EXCEPT !.request = req, !.stage = "responded", !.response = DirectResponseV1(req)]

\* the call of the first variant from the settling of request.json() to
\* `await generateProductDescription(params)`, to the return of its final
\* else or to its catch block; generateProductDescription runs to its end
\* when it is called and hands back a promise of its ToolResponse
AfterJsonV1(cs, i) ==
    LET body   == RequestOf(cs, i).body
        parsed == RequestJson(body)
        source == IF Truthy(GetProp(body, "parameters")) THEN GetProp(body, "parameters")
                  ELSE IF Truthy(GetProp(body, "arguments")) THEN GetProp(body, "arguments")
                  ELSE body
    IN  IF parsed.threw
        THEN [cs[i] EXCEPT !.stage = "responded",
                           !.response = InvalidFormatResponse(parsed.message)]
        ELSE IF body.t = "null"
        THEN [cs[i] EXCEPT !.stage = "responded",
                           !.response = InvalidFormatResponse(
                                            NullishReadMessage(body, "parameters"))]
        ELSE IF \/ Truthy(GetProp(body, "parameters"))
                \/ Truthy(GetProp(body, "arguments"))
                \/ Truthy(GetProp(body, "productName"))
        THEN [cs[i] EXCEPT !.stage = "awaitingExecute",
                           !.outcome = Return(generateProductDescription(PickParams(source)))]
        ELSE [cs[i] EXCEPT !.stage = "responded",
                           !.response = InvalidFormatResponse(
                               "Expected productName and partNumber in request body")]

\* the call of the first variant from the settling of the ToolResponse to
\* its return
AfterExecuteV1(cs, i) ==
    [cs[i] EXCEPT !.stage = "responded",
                  !.outcome = NoOutcome,
                  !.response = ToolResponseV1(cs[i].outcome.value)]

\* the other calls followed while a call waits, and the requests during which
\* they are followed
MaxOthers == 2

OtherRequests ==
    { [method |-> "GET", path |-> "/", body |-> Undef],
      [method |-> "POST", path |-> "/", body |-> WidgetParams],
      [method |-> "POST", path |-> "/", body |-> PartlyParams] }

OverlappedRequests ==
    { [method |-> "POST", path |-> "/", body |-> Wrapped("input", OtherParams)],
      [method |-> "POST", path |-> "/", body |-> PartlyParams],
      [method |-> "POST", path |-> "/", body |-> InvalidJson] }

Init ==
    /\ pc = "idle"
    /\ request = NoRequest
    /\ response = NoResponse
    /\ productName = ""
    /\ partNumber = ""
    /\ attributes = <<>>
    /\ type = ""
    /\ tone = ""
    /\ attrMap = EmptyMap
    /\ attrList = <<>>
    /\ description = ""
    /\ calls = <<>>
    /\ runtime \in Runtimes
    /\ newLine \in NewLines
    /\ tool = NewTool
    /\ PriorityKeys = NewPriorityKeys

\* a request arrives
Receive ==
    /\ pc = "idle"
    /\ \E r \in Requests : request' = r
    /\ pc' = "received"
    /\ UNCHANGED <<tool, PriorityKeys,
                   runtime, newLine, calls, response, productName, partNumber, attributes, type, tone,
                   attrMap, attrList, description>>

\* the call that is followed has run to `call`: its stage in the worker
\* `variant` is the position of the model, its response the one shown
Proceeds(call, variant) ==
    /\ pc' = call.stage \o variant
    /\ response' = call.response

\* the worker of index.ts is called with the request and runs to its first
\* await, or to its return if the request is not POST /
FetchCalled ==
    /\ pc = "received"
    /\ Proceeds(Enter(request), "")
    /\ UNCHANGED <<tool, PriorityKeys,
                   runtime, newLine, calls, request, productName, partNumber, attributes, type, tone,
                   attrMap, attrList, description>>

\* request.json() settles: the call picks the parameters, calls execute and
\* awaits its promise, or answers from the catch block
FetchJsonSettles ==
    /\ pc = "awaitingJson"
    /\ Proceeds(AfterJson(<<Enter(request)>>, 1), "")
    /\ UNCHANGED <<tool, PriorityKeys,
                   runtime, newLine, calls, request, productName, partNumber, attributes, type, tone,
                   attrMap, attrList, description>>

\* the promise of execute settles: the call returns its Response
FetchExecuteSettles ==
    /\ pc = "awaitingExecute"
    /\ Proceeds(AfterExecute(<<AfterJson(<<Enter(request)>>, 1)>>, 1), "")
    /\ UNCHANGED <<tool, PriorityKeys,
                   runtime, newLine, calls, request, productName, partNumber, attributes, type, tone,
                   attrMap, attrList, description>>

\* the first variant of the worker is called with the request
FetchV1Called ==
    /\ pc = "received"
    /\ Proceeds(EnterV1(request), "V1")
    /\ UNCHANGED <<tool, PriorityKeys,
                   runtime, newLine, calls, request, productName, partNumber, attributes, type, tone,
                   attrMap, attrList, description>>

\* request.json() settles in the first variant
FetchV1JsonSettles ==
    /\ pc = "awaitingJsonV1"
    /\ Proceeds(AfterJsonV1(<<EnterV1(request)>>, 1), "V1")
    /\ UNCHANGED <<tool, PriorityKeys,
                   runtime, newLine, calls, request, productName, partNumber, attributes, type, tone,
                   attrMap, attrList, description>>

\* the promise of generateProductDescription settles in the first variant
FetchV1ExecuteSettles ==
    /\ pc = "awaitingExecuteV1"
    /\ Proceeds(AfterExecuteV1(<<AfterJsonV1(<<EnterV1(request)>>, 1)>>, 1), "V1")
    /\ UNCHANGED <<tool, PriorityKeys,
                   runtime, newLine, calls, request, productName, partNumber, attributes, type, tone,
                   attrMap, attrList, description>>

\* the call that is followed waits at an await of index.ts / of the first variant
Waiting == pc \in {"awaitingJson", "awaitingExecute"}
WaitingV1 == pc \in {"awaitingJsonV1", "awaitingExecuteV1"}

\* while the call waits the runtime calls fetch with another request; a
\* request that is not POST / is answered within this step
OtherArrives ==
    /\ Waiting \/ WaitingV1
    /\ request \in OverlappedRequests
    /\ Len(calls) < MaxOthers
    /\ \E req \in OtherRequests :
          calls' = Append(calls, IF WaitingV1 THEN EnterV1(req) ELSE Enter(req))
    /\ UNCHANGED <<tool, PriorityKeys,
                   runtime, newLine, pc, request, response, productName, partNumber, attributes,
                   type, tone, attrMap, attrList, description>>

\* request.json() of another call settles
OtherJsonSettles ==
    /\ pc \in {"awaitingJson", "awaitingExecute", "responded",
               "awaitingJsonV1", "awaitingExecuteV1", "respondedV1"}
    /\ \E i \in DOMAIN calls :
          /\ calls[i].stage = "awaitingJson"
          /\ calls' = [calls EXCEPT ![i] =
                          IF pc \in {"awaitingJsonV1", "awaitingExecuteV1", "respondedV1"}
                          THEN AfterJsonV1(calls, i) ELSE AfterJson(calls, i)]
    /\ UNCHANGED <<tool, PriorityKeys,
                   runtime, newLine, pc, request, response, productName, partNumber, attributes,
                   type, tone, attrMap, attrList, description>>

\* the awaited promise of another call settles and that call returns
OtherExecuteSettles ==
    /\ pc \in {"awaitingJson", "awaitingExecute", "responded",
               "awaitingJsonV1", "awaitingExecuteV1", "respondedV1"}
    /\ \E i \in DOMAIN calls :
          /\ calls[i].stage = "awaitingExecute"
          /\ calls' = [calls EXCEPT ![i] =
                          IF pc \in {"awaitingJsonV1", "awaitingExecuteV1", "respondedV1"}
                          THEN AfterExecuteV1(calls, i) ELSE AfterExecute(calls, i)]
    /\ UNCHANGED <<tool, PriorityKeys,
                   runtime, newLine, pc, request, response, productName, partNumber, attributes,
                   type, tone, attrMap, attrList, description>>

\* the C# program answers a POST / whose body binds to its request class
RespondProgram ==
    /\ pc = "received"
    /\ request.method = "POST" /\ request.path = "/"
    /\ Bindable(request.body)
    /\ response' = MapPost(request.body)
    /\ pc' = "respondedProgram"
    /\ UNCHANGED <<tool, PriorityKeys,
                   runtime, newLine, calls, request, productName, partNumber, attributes, type, tone,
                   attrMap, attrList, description>>

\* the C# program of part_007 answers such a POST /
RespondSdk ==
    /\ pc = "received"
    /\ request.method = "POST" /\ request.path = "/"
    /\ Bindable(request.body)
    /\ response' = MapPostSdk(request.body)
    /\ pc' = "respondedSdk"
    /\ UNCHANGED <<tool, PriorityKeys,
                   runtime, newLine, calls, request, productName, partNumber, attributes, type, tone,
                   attrMap, attrList, description>>

\* the response is delivered; the worker keeps nothing of the exchange, and
\* the other calls are followed no further
Complete ==
    /\ pc \in {"responded", "respondedV1", "respondedProgram", "respondedSdk"}
    /\ pc' = "idle"
    /\ request' = NoRequest
    /\ response' = NoResponse
    /\ calls' = <<>>
    /\ UNCHANGED <<tool, PriorityKeys,
                   runtime, newLine, productName, partNumber, attributes, type, tone,
                   attrMap, attrList, description>>

Next ==
    \/ Receive
    \/ FetchCalled
    \/ FetchJsonSettles
    \/ FetchExecuteSettles
    \/ FetchV1Called
    \/ FetchV1JsonSettles
    \/ FetchV1ExecuteSettles
    \/ OtherArrives
    \/ OtherJsonSettles
    \/ OtherExecuteSettles
    \/ RespondProgram
    \/ RespondSdk
    \/ Complete

Spec == Init /\ [][Next]_vars

(***************************************************************************)
(* Properties of the worker                                                *)
(***************************************************************************)
IsExecuteRequest == request.method = "POST" /\ request.path = "/"

Answered == pc \in {"responded", "respondedV1"}

IsJsonResponse(resp) ==
    /\ <<"Content-Type", "application/json">> \in resp.headers
    /\ resp.body.t = "obj"

\* a JSON response of status 200 with success = true, or of status 400 with
\* success = false and an error string
SuccessOrError(resp) ==
    /\ IsJsonResponse(resp)
    /\ \/ /\ resp.status = 200
          /\ GetProp(resp.body, "success") = JBool(TRUE)
       \/ /\ resp.status = 400
          /\ GetProp(resp.body, "success") = JBool(FALSE)
          /\ GetProp(resp.body, "error").t = "str"

\* C1: every body sent to POST / is answered with a JSON response that is
\* either status 200 with success = true, or status 400 with success = false
\* and an error string; nothing thrown on the way leaves the handler.
C1_EveryBodyAnswered ==
    /\ (Answered /\ IsExecuteRequest) => SuccessOrError(response)
    /\ \A i \in DOMAIN calls :
          (calls[i].stage = "responded" /\ calls[i].request.method = "POST") =>
              SuccessOrError(calls[i].response)

\* a body that is not JSON, and one whose product name cannot be turned
\* into text, have both been answered with the error envelope
C1_Witness ==
    /\ pc = "responded"
    /\ IsExecuteRequest
    /\ request.body \in {InvalidJson, Fields([productName |-> OddObject,
                                              partNumber |-> JStr("W-1")])}
    /\ response.status = 400
    /\ GetProp(response.body, "success") = JBool(FALSE)

\* the wrapper keys of a body that hold a parameter object
PresentWrappers(body) == {w \in WrapperKeys : GetProp(body, w).t = "obj"}

\* every wrapper key the body carries holds an object
WellFormedWrappers(body) ==
    /\ body.t = "obj"
    /\ \A w \in WrapperKeys \cap DOMAIN body.o : body.o[w].t = "obj"

HighestWrapper(body) ==
    IF "parameters" \in PresentWrappers(body) THEN "parameters"
    ELSE IF "arguments" \in PresentWrappers(body) THEN "arguments"
    ELSE "input"

\* the answer of the variant that has responded to the parameter object p
AnswerFor(p) ==
    IF pc = "responded" THEN ExecuteResponse(p) ELSE ExecuteResponseV1(p)

\* C3: parameters are taken in the order parameters, arguments, input, flat
\* body: when a body carries wrapper objects, the answer is the one for the
\* parameters of the highest-priority wrapper present, whatever the
\* lower-priority wrappers and the flat fields hold.
C3_WrapperPriority ==
    (Answered /\ IsExecuteRequest /\ WellFormedWrappers(request.body)
       /\ PresentWrappers(request.body) # {}) =>
        response = AnswerFor(GetProp(request.body, HighestWrapper(request.body)))

\* the same law for the worker of index.ts alone
C3_WrapperPriorityIndex ==
    (pc = "responded" /\ IsExecuteRequest /\ WellFormedWrappers(request.body)
       /\ PresentWrappers(request.body) # {}) =>
        response = ExecuteResponse(GetProp(request.body, HighestWrapper(request.body)))

\* C4: for every parameter object p, the bodies {"parameters": p},
\* {"arguments": p}, {"input": p} and p itself are answered by index.ts with
\* the same response: status, success flag, content and metadata.
C4_ShapesAgree ==
    (pc = "responded" /\ IsExecuteRequest) =>
        \A p \in ParamObjects :
            request.body \in Shapes(p) =>
                \A b \in Shapes(p) : Fetch([request EXCEPT !.body = b]) = response

\* a parameter object sent under the input key has been answered with the
\* description the flat body gets
C4_Witness ==
    /\ pc = "responded"
    /\ IsExecuteRequest
    /\ request.body = Wrapped("input", WidgetParams)
    /\ response.status = 200
    /\ response = Fetch([request EXCEPT !.body = WidgetParams])

\* the required-field rule as execute of index.ts applies it to flat bodies
\* whose fields are strings and whose attributes are a list of strings
C2_RequiredFieldValidationIndex ==
    (pc = "responded" /\ IsExecuteRequest /\ request.body \in ParamObjects) =>
        LET pn   == GetProp(request.body, "productName")
            part == GetProp(request.body, "partNumber")
            list == GetProp(request.body, "attributes")
        IN  /\ (pn \in {Undef, JStr("")} \/ part \in {Undef, JStr("")}) =>
                    GetProp(response.body, "success") = JBool(FALSE)
            /\ (pn = JStr("Widget") /\ part = JStr("W-1") /\ list \in AttributeArrays) =>
                    GetProp(response.body, "success") = JBool(TRUE)

(***************************************************************************)
(* The C# tool: ProductDescriptionGeneratorTool.GenerateDescription        *)
(***************************************************************************)
MaxToolAttrs == 2

\* ValidateParameters: the message of the ArgumentException it throws, or ""
ValidateParameters(pn, part, attrs) ==
    IF IsNullOrWhiteSpace(pn) THEN "ProductName is required"
    ELSE IF IsNullOrWhiteSpace(part) THEN "PartNumber is required"
    ELSE IF Len(attrs) = 0 THEN "Attributes array is required and must not be empty"
    ELSE ""

\* var type = string.IsNullOrWhiteSpace(parameters.Type) ? "general" : parameters.Type
EffectiveType(ty) == IF IsNullOrWhiteSpace(ty) THEN "general" ELSE ty

\* a tone that is passed on as it came
EffectiveToneUnset(tn) == tn

\* var tone = string.IsNullOrWhiteSpace(parameters.Tone) ? "professional" : parameters.Tone
EffectiveTone(tn) == IF IsNullOrWhiteSpace(tn) THEN "professional" ELSE tn

ToolPool == {"Brand: DEWALT", "Color: Blue", "Just Text", "Capacity: 28 oz."}

ToolLists == UNION {[1..n -> ToolPool] : n \in 0..MaxToolAttrs}

InitTool ==
    /\ pc = "toolCalled"
    /\ request = NoRequest
    /\ response = NoResponse
    /\ productName \in {"", " ", "Standard Office Stapler"}
    /\ partNumber \in {"", "STA-001"}
    /\ attributes \in ToolLists
    /\ type \in {"", " ", "general", "ecommerce"}
    /\ tone \in {"", " ", "professional", "casual"}
    /\ attrMap = EmptyMap
    /\ attrList = <<>>
    /\ description = ""
    /\ calls = <<>>
    /\ runtime = NoRuntime
    /\ newLine = LineFeed
    /\ tool = NewTool
    /\ PriorityKeys = NewPriorityKeys

\* GenerateDescription(parameters): validation, the defaults of type and
\* tone, the service call and the returned object
ToolGenerateDescription ==
    /\ pc = "toolCalled"
    /\ LET error == ValidateParameters(productName, partNumber, attributes)
           ty == EffectiveType(type)
           tn == EffectiveTone(tone)
           content ==
               ServiceGenerateProductDescription(productName, partNumber, attributes, ty, tn)
       IN  IF error # ""
           THEN /\ pc' = "toolThrew"
                /\ description' = error
                /\ response' = response
           ELSE /\ pc' = "toolReturned"
                /\ description' = content
                /\ response' =
                      [status |-> 0, headers |-> {},
                       body |-> JObj([content |-> JStr(content),
                                      productName |-> JStr(productName),
                                      partNumber |-> JStr(partNumber),
                                      attributeCount |-> JNum(Len(attributes)),
                                      type |-> JStr(ty),
                                      tone |-> JStr(tn)])]
    /\ UNCHANGED <<tool, PriorityKeys,
                   runtime, newLine, calls, request, productName, partNumber, attributes, type, tone,
                   attrMap, attrList>>

NextTool == ToolGenerateDescription

SpecTool == InitTool /\ [][NextTool]_vars

\* C2: a call with productName or partNumber missing or empty fails, and a
\* call with both present succeeds for any attributes list, the empty list
\* included.
C2_RequiredFieldValidation ==
    pc \in {"toolThrew", "toolReturned"} =>
        /\ (productName = "" \/ partNumber = "") => pc = "toolThrew"
        /\ (~IsNullOrWhiteSpace(productName) /\ ~IsNullOrWhiteSpace(partNumber)) =>
                pc = "toolReturned"

(***************************************************************************)
(* Properties of the error responses                                       *)
(***************************************************************************)
\* a required field that is missing, null, empty or white space only
Blank(v) == v.t \in {"undef", "null"} \/ (v.t = "str" /\ IsNullOrWhiteSpace(v.s))

\* a flat body whose two required fields are strings, null or missing
HasTextFields(body) ==
    /\ body \in ParamObjects
    /\ GetProp(body, "productName").t \in {"undef", "null", "str"}
    /\ GetProp(body, "partNumber").t \in {"undef", "null", "str"}

\* the response is a rejection and carries no description
Rejected(resp) ==
    /\ resp.status = 400
    /\ GetProp(resp.body, "success") = JBool(FALSE)
    /\ GetProp(resp.body, "content").t \in {"undef", "null"}
    /\ GetProp(resp.body, "result").t \in {"undef", "null"}

BlankFieldsRejectedBy(variants) ==
    (pc \in variants /\ IsExecuteRequest /\ HasTextFields(request.body)
       /\ (Blank(GetProp(request.body, "productName"))
             \/ Blank(GetProp(request.body, "partNumber")))) =>
        Rejected(response)

\* C11: an execute call whose productName or partNumber is blank (empty or
\* white space only) is rejected: status 400, success = false, and no
\* description is generated.
C11_BlankFieldsRejected == BlankFieldsRejectedBy({"responded", "respondedV1", "respondedProgram"})

\* the same rule for the C# program alone, which tests IsNullOrWhiteSpace
C11_BlankFieldsRejectedProgram == BlankFieldsRejectedBy({"respondedProgram"})

\* the rule the two workers do enforce: a missing, null or empty field
C11_EmptyFieldsRejectedWorkers ==
    (pc \in {"responded", "respondedV1"} /\ IsExecuteRequest /\ HasTextFields(request.body)
       /\ (GetProp(request.body, "productName") \in {Undef, JNull, JStr("")}
             \/ GetProp(request.body, "partNumber") \in {Undef, JNull, JStr("")})) =>
        Rejected(response)

\* productName is there and partNumber is not
OnlyPartNumberMissing(body) ==
    /\ body \in ParamObjects
    /\ GetProp(body, "productName") = JStr("Widget")
    /\ GetProp(body, "partNumber") = Undef

MissingPartNumberErrorBy(variants) ==
    (pc \in variants /\ IsExecuteRequest /\ OnlyPartNumberMissing(request.body)) =>
        /\ response.status = 400
        /\ GetProp(response.body, "success") = JBool(FALSE)
        /\ GetProp(response.body, "error") = JStr("Missing required parameters")

\* C12: POST / with productName present and partNumber missing returns
\* status 400 with success = false and error equal to
\* "Missing required parameters".
C12_MissingPartNumberError ==
    MissingPartNumberErrorBy({"responded", "respondedV1", "respondedProgram"})

\* the same for the first variant of the worker and the C# program
C12_MissingPartNumberErrorOthers ==
    MissingPartNumberErrorBy({"respondedV1", "respondedProgram"})

\* a body that is not JSON, or that has none of the accepted shapes: no
\* wrapper key and none of the three parameter fields
Malformed(body) ==
    \/ body.t # "obj"
    \/ DOMAIN body.o \cap (WrapperKeys \cup {"productName", "partNumber", "attributes"}) = {}

InvalidRequestFormatBy(variants) ==
    (pc \in variants /\ IsExecuteRequest) =>
        /\ Malformed(request.body) =>
              /\ response.status = 400
              /\ GetProp(response.body, "error") = JStr("Invalid request format")
        /\ OnlyPartNumberMissing(request.body) =>
              /\ response.status = 400
              /\ GetProp(response.body, "error") # JStr("Invalid request format")

\* C13: a POST / whose body is not valid JSON, or matches none of the
\* accepted parameter shapes, gets a 400 response with error
\* "Invalid request format", which is not the error of a well-formed request
\* that only lacks a required field.
C13_InvalidRequestFormat == InvalidRequestFormatBy({"responded", "respondedV1"})

\* the same for the first variant of the worker alone
C13_InvalidRequestFormatV1 == InvalidRequestFormatBy({"respondedV1"})

(***************************************************************************)
(* Properties of the response envelope and of the CORS headers             *)
(***************************************************************************)
\* C14: every successful execute response carries success = true, a result
\* object, a top-level content equal to result.content, and a metadata object
\* with the tool's name and version and with the productName, partNumber and
\* attributeCount of the result object.
C14_SuccessEnvelope ==
    (pc \in {"responded", "respondedSdk"} /\ IsExecuteRequest /\ response.status = 200) =>
        LET result   == GetProp(response.body, "result")
            metadata == GetProp(response.body, "metadata")
        IN  /\ GetProp(response.body, "success") = JBool(TRUE)
            /\ result.t = "obj"
            /\ GetProp(result, "content").t = "str"
            /\ GetProp(response.body, "content") = GetProp(result, "content")
            /\ metadata.t = "obj"
            /\ GetProp(metadata, "tool") = JStr("product-description-generator")
            /\ GetProp(metadata, "version") = JStr("1.0.0")
            /\ GetProp(metadata, "productName") = GetProp(result, "productName")
            /\ GetProp(metadata, "partNumber") = GetProp(result, "partNumber")
            /\ GetProp(metadata, "attributeCount") = GetProp(result, "attributeCount")

\* index.ts has answered a request with three attributes under a wrapper
C14_Witness ==
    /\ pc = "responded"
    /\ IsExecuteRequest
    /\ request.body = Wrapped("arguments",
            Fields([productName |-> JStr("Widget"), partNumber |-> JStr("W-1"),
                    attributes |-> StrArr(<<RequestAttribute(1), RequestAttribute(2),
                                            RequestAttribute(3)>>)]))
    /\ response.status = 200
    /\ GetProp(GetProp(response.body, "metadata"), "attributeCount") = JNum(3)

HasCorsHeaders(resp) ==
    /\ <<"Access-Control-Allow-Origin", "*">> \in resp.headers
    /\ \E h \in resp.headers : h[1] = "Access-Control-Allow-Methods"
    /\ \E h \in resp.headers : h[1] = "Access-Control-Allow-Headers"

\* C15: every response of the index.ts handler, whatever the method and the
\* path (discovery, health, execute success, execute failure, not found),
\* has Access-Control-Allow-Origin: * and the allowed-methods and
\* allowed-headers headers, and an OPTIONS request on any path is answered
\* with those headers and no body.
C15_CorsOnEveryResponse ==
    /\ pc = "responded" =>
        /\ HasCorsHeaders(response)
        /\ request.method = "OPTIONS" => response.body = Undef
    /\ (Waiting \/ pc = "responded") =>
        \A i \in DOMAIN calls :
            calls[i].stage = "responded" => HasCorsHeaders(calls[i].response)

\* an execute failure has been answered with the CORS headers
C15_Witness ==
    /\ pc = "responded"
    /\ IsExecuteRequest
    /\ response.status = 400
    /\ HasCorsHeaders(response)

\* an OPTIONS request on an unknown path has been answered without a body
C15_WitnessPreflight ==
    /\ pc = "responded"
    /\ request.method = "OPTIONS"
    /\ request.path = "/other"
    /\ response.body = Undef
    /\ HasCorsHeaders(response)

(***************************************************************************)
(* Several calls in one process                                            *)
(*                                                                         *)
(* index.ts creates one tool (line 282) and every call of fetch uses it.   *)
(* A call runs without interruption up to an await: `await request.json()` *)
(* (line 364) and `await tool.execute(params)` (line 384).  Between two    *)
(* awaits of one call, any other call may arrive or continue.              *)
(*                                                                         *)
(* DescriptionGenerationService (part_008) is called from request threads  *)
(* that run side by side; a call builds attrMap and attrList as locals in  *)
(* ParseAttributes and hands them to BuildDescription.                     *)
(***************************************************************************)

MaxCalls == 3

SessionRequests ==
    { [method |-> "GET", path |-> "/discovery", body |-> Undef],
      [method |-> "GET", path |-> "/", body |-> Undef],
      [method |-> "POST", path |-> "/", body |-> WidgetParams],
      [method |-> "POST", path |-> "/", body |-> Wrapped("input", OtherParams)],
      [method |-> "POST", path |-> "/", body |-> PartlyParams],
      [method |-> "POST", path |-> "/", body |-> InvalidJson] }

SessionInputs ==
    { [productName |-> "Drill", partNumber |-> "P-1",
       attributes |-> <<"Brand: DEWALT", "Capacity: 28 oz.">>,
       type |-> "ecommerce", tone |-> "professional"],
      [productName |-> "Stapler", partNumber |-> "S-2",
       attributes |-> <<"Just Text">>,
       type |-> "general", tone |-> "casual"] }

\* a call of GenerateProductDescription that builds its text from the
\* attributes parsed by the call that was made last
BuildFromLatest(cs, i) ==
    BuildDescription(cs[i].input.productName, cs[i].input.partNumber,
                     cs[Len(cs)].attrMap, cs[Len(cs)].attrList,
                     cs[i].input.type, cs[i].input.tone)

\* BuildDescription on the locals of the call
BuildFromLocals(cs, i) ==
    BuildDescription(cs[i].input.productName, cs[i].input.partNumber,
                     cs[i].attrMap, cs[i].attrList,
                     cs[i].input.type, cs[i].input.tone)

InitSession ==
    /\ pc = "serving"
    /\ request = NoRequest
    /\ response = NoResponse
    /\ productName = ""
    /\ partNumber = ""
    /\ attributes = <<>>
    /\ type = ""
    /\ tone = ""
    /\ attrMap = EmptyMap
    /\ attrList = <<>>
    /\ description = ""
    /\ calls = <<>>
    /\ runtime \in Runtimes
    /\ newLine = LineFeed
    /\ tool = NewTool
    /\ PriorityKeys = NewPriorityKeys

\* the runtime calls fetch with a new request
Arrive ==
    /\ pc = "serving"
    /\ Len(calls) < MaxCalls
    /\ \E req \in SessionRequests : calls' = Append(calls, Enter(req))
    /\ UNCHANGED <<tool, PriorityKeys,
                   runtime, newLine, pc, request, response, productName, partNumber, attributes,
                   type, tone, attrMap, attrList, description>>

\* the description a call holds once its execute has generated one, or none
GeneratedBy(call) ==
    IF call.stage = "awaitingExecute" /\ ~call.outcome.threw
    THEN {GetProp(call.outcome.value, "content").s}
    ELSE {}

\* the same step with an execute that keeps the text it generated in the
\* field of the tool (this.description = this.generateDescription(...))
JsonSettlesKeepingDescription ==
    /\ pc = "serving"
    /\ \E i \in DOMAIN calls :
          /\ calls[i].stage = "awaitingJson"
          /\ calls' = [calls EXCEPT ![i] = AfterJson(calls, i)]
          /\ tool' = IF GeneratedBy(AfterJson(calls, i)) = {} THEN tool
                     ELSE [tool EXCEPT !.description =
                              CHOOSE text \in GeneratedBy(AfterJson(calls, i)) : TRUE]
    /\ UNCHANGED <<PriorityKeys, runtime, newLine, pc, request, response, productName,
                   partNumber, attributes, type, tone, attrMap, attrList, description>>

\* the same step with an execute that names the tool after the product it
\* has generated the text for (this.name = params.productName)
JsonSettlesNamingTool ==
    /\ pc = "serving"
    /\ \E i \in DOMAIN calls :
          /\ calls[i].stage = "awaitingJson"
          /\ calls' = [calls EXCEPT ![i] = AfterJson(calls, i)]
          /\ tool' = IF GeneratedBy(AfterJson(calls, i)) = {} THEN tool
                     ELSE [tool EXCEPT !.name =
                              ToStr(GetProp(AfterJson(calls, i).outcome.value, "productName"))]
    /\ UNCHANGED <<PriorityKeys, runtime, newLine, pc, request, response, productName,
                   partNumber, attributes, type, tone, attrMap, attrList, description>>

\* request.json() of one call settles and the call runs to its next await
JsonSettles ==
    /\ pc = "serving"
    /\ \E i \in DOMAIN calls :
          /\ calls[i].stage = "awaitingJson"
          /\ calls' = [calls EXCEPT ![i] = AfterJson(calls, i)]
    /\ UNCHANGED <<tool, PriorityKeys,
                   runtime, newLine, pc, request, response, productName, partNumber, attributes,
                   type, tone, attrMap, attrList, description>>

\* tool.execute(params) of one call settles and the call returns its response
ExecuteSettles ==
    /\ pc = "serving"
    /\ \E i \in DOMAIN calls :
          /\ calls[i].stage = "awaitingExecute"
          /\ calls' = [calls EXCEPT ![i] = AfterExecute(calls, i)]
    /\ UNCHANGED <<tool, PriorityKeys,
                   runtime, newLine, pc, request, response, productName, partNumber, attributes,
                   type, tone, attrMap, attrList, description>>

\* a thread calls GenerateProductDescription
ServiceCalled ==
    /\ pc = "serving"
    /\ Len(calls) < MaxCalls
    /\ \E in \in SessionInputs :
          calls' = Append(calls, [NewCall EXCEPT !.input = in, !.stage = "called"])
    /\ UNCHANGED <<tool, PriorityKeys,
                   runtime, newLine, pc, request, response, productName, partNumber, attributes,
                   type, tone, attrMap, attrList, description>>

\* var (attrMap, attrList) = ParseAttributes(attributes)
ServiceParses ==
    /\ pc = "serving"
    /\ \E i \in DOMAIN calls :
          /\ calls[i].stage = "called"
          /\ calls' = [calls EXCEPT
                ![i].stage = "parsed",
                ![i].attrMap = ParseAttributes(calls[i].input.attributes).attrMap,
                ![i].attrList = ParseAttributes(calls[i].input.attributes).attrList]
    /\ UNCHANGED <<tool, PriorityKeys,
                   runtime, newLine, pc, request, response, productName, partNumber, attributes,
                   type, tone, attrMap, attrList, description>>

\* var description = BuildDescription(...); return description
ServiceBuilds ==
    /\ pc = "serving"
    /\ \E i \in DOMAIN calls :
          /\ calls[i].stage = "parsed"
          /\ calls' = [calls EXCEPT ![i].stage = "returned",
                                    ![i].description = BuildFromLocals(calls, i)]
    /\ UNCHANGED <<tool, PriorityKeys,
                   runtime, newLine, pc, request, response, productName, partNumber, attributes,
                   type, tone, attrMap, attrList, description>>

NextSession ==
    \/ Arrive
    \/ JsonSettles
    \/ ExecuteSettles
    \/ ServiceCalled
    \/ ServiceParses
    \/ ServiceBuilds

SpecSession == InitSession /\ [][NextSession]_vars

IsDiscovery(req) == req.method = "GET" /\ req.path = "/discovery"
IsExecute(req) == req.method = "POST" /\ req.path = "/"
Responded(c) == c.stage = "responded"
Returned(c) == c.stage = "returned"

\* C16: whatever calls came before it, a discovery call returns the response
\* (status, headers and ToolDefinition JSON) of the first discovery call.
C16_DiscoveryStable ==
    \A i \in DOMAIN calls : \A j \in DOMAIN calls :
        (i < j /\ IsDiscovery(calls[i].request) /\ IsDiscovery(calls[j].request)
               /\ Responded(calls[i]) /\ Responded(calls[j]))
        => calls[j].response = calls[i].response

\* a discovery call, then a successful execute, then a discovery call again
C16_Witness ==
    /\ Len(calls) = 3
    /\ IsDiscovery(calls[1].request)
    /\ IsExecute(calls[2].request) /\ Responded(calls[2]) /\ calls[2].response.status = 200
    /\ IsDiscovery(calls[3].request) /\ Responded(calls[3])
    /\ calls[3].response.status = 200

\* C17: two execute calls with the same request get the same response, and
\* two service calls with the same arguments return the same description,
\* whatever calls were made before or between them.
C17_ExecuteDeterministic ==
    \A i \in DOMAIN calls : \A j \in DOMAIN calls :
        /\ (IsExecute(calls[i].request) /\ calls[j].request = calls[i].request
                /\ Responded(calls[i]) /\ Responded(calls[j]))
           => calls[j].response = calls[i].response
        /\ (Returned(calls[i]) /\ Returned(calls[j]) /\ calls[j].input = calls[i].input)
           => calls[j].description = calls[i].description

\* the same successful execute request before and after an execute call with
\* another body
C17_Witness ==
    /\ Len(calls) = 3
    /\ IsExecute(calls[1].request)
    /\ calls[3].request = calls[1].request
    /\ IsExecute(calls[2].request) /\ calls[2].request # calls[1].request
    /\ \A i \in 1..3 : Responded(calls[i])
    /\ calls[1].response.status = 200

\* the same service call before and after a service call with other arguments
C17_WitnessService ==
    /\ Len(calls) = 3
    /\ \A i \in 1..3 : Returned(calls[i])
    /\ calls[3].input = calls[1].input
    /\ calls[2].input # calls[1].input

\* C18: in every interleaving of the calls, a call that has returned has
\* returned what it returns when it is the only call: fetch its response,
\* GenerateProductDescription its description.
C18_CallsIsolated ==
    \A i \in DOMAIN calls :
        /\ Responded(calls[i]) => calls[i].response = Fetch(calls[i].request)
        /\ Returned(calls[i]) =>
              calls[i].description =
                  ServiceGenerateProductDescription(
                      calls[i].input.productName, calls[i].input.partNumber,
                      calls[i].input.attributes, calls[i].input.type, calls[i].input.tone)

\* an execute call that arrived second has returned while the first execute
\* call, with another body, is still waiting for its tool.execute
C18_Witness ==
    /\ Len(calls) >= 2
    /\ IsExecute(calls[1].request) /\ calls[1].stage = "awaitingExecute"
    /\ IsExecute(calls[2].request) /\ Responded(calls[2])
    /\ calls[2].request # calls[1].request
    /\ calls[2].response.status = 200

\* a service call made second has returned while the first, with other
\* arguments, is between ParseAttributes and BuildDescription
C18_WitnessService ==
    /\ Len(calls) >= 2
    /\ calls[1].stage = "parsed"
    /\ Returned(calls[2])
    /\ calls[2].input # calls[1].input

(***************************************************************************)
(* The content of a successful execute call: Strategy A of index.ts and    *)
(* of Program.cs (lines 96-213), Strategy C behind the POST / endpoint of  *)
(* Program.cs (lines 454-551)                                              *)
(***************************************************************************)

MaxContentAttrs == 2
ManyAttrs == 10
ContentPad == 483

\* names of ContentPad - 1 and of ContentPad characters, which with
\* ", Part# TP-001" make 496 and 497 characters and are kept whole by the
\* truncation; a name of ContentPad + 1 characters, which makes 498 and
\* loses the last character of the part number; and a name that is itself
\* longer than 497 characters
LongNames ==
    {Rep("N", n) :
        n \in {ContentPad - 1, ContentPad, ContentPad + 1, MaxDescriptionLength - 2}}

ContentNames == {"", " ", "Test Product"} \cup LongNames
ContentParts == {"", "TP-001"}
ContentLists ==
    UNION {[1..n -> {"Feature 1", "Feature 2"}] : n \in 0..MaxContentAttrs}
    \cup {[i \in 1..ManyAttrs |-> "Feature " \o IntToStr(i)]}

\* the body of the MapPost "/" handler that calls Strategy C
SummaryExecute(pn, part, attrs) ==
    IF IsNullOrWhiteSpace(pn) \/ IsNullOrWhiteSpace(part)
    THEN [success |-> FALSE, content |-> "", error |-> "Missing required parameters"]
    ELSE IF Len(attrs) = 0
    THEN [success |-> FALSE, content |-> "", error |-> "Invalid attributes"]
    ELSE [success |-> TRUE,
          content |-> SummaryGenerateProductDescription(pn, part, attrs),
          error |-> ""]

\* the parameter object that carries the three inputs as JSON
ParamsOf(pn, part, attrs) ==
    Fields([productName |-> JStr(pn), partNumber |-> JStr(part),
            attributes |-> StrArr(attrs)])

InitContent ==
    /\ pc = "supplied"
    /\ request = NoRequest
    /\ response = NoResponse
    /\ productName \in ContentNames
    /\ partNumber \in ContentParts
    /\ attributes \in ContentLists
    /\ type = ""
    /\ tone = ""
    /\ attrMap = EmptyMap
    /\ attrList = <<>>
    /\ description = ""
    /\ calls = <<>>
    /\ runtime \in Runtimes
    /\ newLine \in NewLines
    /\ tool = NewTool
    /\ PriorityKeys = NewPriorityKeys

\* tool.execute(params) of index.ts
ExecuteMarkdown ==
    /\ pc = "supplied"
    /\ LET outcome == execute(ParamsOf(productName, partNumber, attributes))
       IN  IF outcome.threw
           THEN pc' = "rejected" /\ description' = ""
           ELSE pc' = "markdown" /\ description' = GetProp(outcome.value, "content").s
    /\ UNCHANGED <<tool, PriorityKeys,
                   runtime, newLine, calls, request, response, productName, partNumber, attributes,
                   type, tone, attrMap, attrList>>

\* POST / of the program that answers with Strategy C
ExecuteSummary ==
    /\ pc = "supplied"
    /\ LET result == SummaryExecute(productName, partNumber, attributes)
       IN  IF result.success
           THEN pc' = "summary" /\ description' = result.content
           ELSE pc' = "rejected" /\ description' = ""
    /\ UNCHANGED <<tool, PriorityKeys,
                   runtime, newLine, calls, request, response, productName, partNumber, attributes,
                   type, tone, attrMap, attrList>>

\* POST / of the program that answers with the markdown report
ExecuteReport ==
    /\ pc = "supplied"
    /\ LET result == MapPost(ParamsOf(productName, partNumber, attributes))
       IN  IF result.status = 200
           THEN pc' = "report" /\ description' = GetProp(result.body, "content").s
           ELSE pc' = "rejected" /\ description' = ""
    /\ UNCHANGED <<tool, PriorityKeys,
                   runtime, newLine, calls, request, response, productName, partNumber, attributes,
                   type, tone, attrMap, attrList>>

NextContent == ExecuteMarkdown \/ ExecuteSummary \/ ExecuteReport

SpecContent == InitContent /\ [][NextContent]_vars

Succeeded == pc \in {"markdown", "summary", "report"}

NamesProduct ==
    Contains(description, productName) /\ Contains(description, partNumber)

\* the leading clause "<productName>, Part# <partNumber>" lies within the
\* characters that a truncation keeps
LeadingClauseKept ==
    Len(productName) + Len(", Part# ") + Len(partNumber) <= TruncatedLength

\* C19 as stated: the content of every successful execute call is non-empty
\* and contains the supplied productName and the supplied partNumber.
C19_ContentNamesProduct ==
    Succeeded => (description # "" /\ NamesProduct)

\* C19: the content of every successful execute call is non-empty; it
\* contains the supplied productName and partNumber in Strategy A always,
\* and in Strategy C whenever productName, ", Part# " and partNumber
\* together are at most 497 characters long (so that the 500-character
\* truncation does not cut them).
C19_ContentNamesProductKept ==
    Succeeded =>
        /\ description # ""
        /\ (pc \in {"markdown", "report"} \/ LeadingClauseKept) => NamesProduct

\* a truncated summary whose leading clause is exactly as long as the
\* truncation keeps: the 497 kept characters end with the part number
C19_WitnessKept ==
    /\ pc = "summary"
    /\ partNumber = "TP-001"
    /\ Len(productName) + Len(", Part# ") + Len(partNumber) = TruncatedLength
    /\ Len(description) = MaxDescriptionLength
    /\ EndsWith(description, partNumber \o "...")
    /\ NamesProduct

\* Scenario 1 answered by Strategy C
C19_Witness ==
    /\ pc = "summary"
    /\ productName = "Test Product"
    /\ partNumber = "TP-001"
    /\ attributes = <<"Feature 1", "Feature 2">>
    /\ NamesProduct

\* Scenario 1 answered by Strategy A, with the length of Test 3
C19_WitnessMarkdown ==
    /\ pc = "markdown"
    /\ productName = "Test Product"
    /\ partNumber = "TP-001"
    /\ attributes = <<"Feature 1", "Feature 2">>
    /\ Len(description) = 1471
    /\ NamesProduct

\* a truncated summary that has lost the end of the part number
C19_WitnessCut ==
    /\ pc = "summary"
    /\ Len(description) = MaxDescriptionLength
    /\ Contains(description, productName)
    /\ ~Contains(description, partNumber)

StartsWith(s, prefix) == Len(s) >= Len(prefix) /\ SubSeq(s, 1, Len(prefix)) = prefix

\* the end of a line of the returned text: index.ts joins its sections
\* with "\n", the report ends its lines as the host does
LineEnd == IF pc = "report" THEN newLine ELSE LineFeed

\* the text between the Key Features heading and the next heading, each
\* followed or preceded by a blank line
KeyFeaturesSection(text) ==
    LET heading == "## Key Features" \o LineEnd \o LineEnd
        rest    == SubstringFrom(text, IndexOfString(text, heading) + Len(heading))
    IN  Substring(rest, 0, IndexOfString(rest, LineEnd \o LineEnd \o "## Technical Specifications"))

KeyFeatureLines == Split(KeyFeaturesSection(description), "\n")

\* C20: in Strategy A the Key Features lines are numbered 1, 2, 3, ... with
\* no gap or repeat: n > 0 attributes give the attribute lines 1..n, then
\* Quality Assurance n+1 and Customer Support n+2; no attributes give the
\* three placeholder lines 1..3, then Quality Assurance 4 and Customer
\* Support 5.
C20_KeyFeaturesNumbered ==
    pc \in {"markdown", "report"} =>
        LET lines == KeyFeatureLines
            n     == Len(attributes)
            k     == IF n > 0 THEN n ELSE 3
        IN  /\ Len(lines) = k + 2
            /\ \A i \in 1..(k + 2) : StartsWith(lines[i], IntToStr(i) \o ". **")
            /\ n > 0 =>
                 \A i \in 1..n :
                    StartsWith(lines[i], IntToStr(i) \o ". **" \o attributes[i] \o "** - ")
            /\ n = 0 =>
                 /\ StartsWith(lines[1], "1. **High Quality Construction**")
                 /\ StartsWith(lines[2], "2. **Reliable Performance**")
                 /\ StartsWith(lines[3], "3. **Easy Integration**")
            /\ StartsWith(lines[k + 1], IntToStr(k + 1) \o ". **Quality Assurance**")
            /\ StartsWith(lines[k + 2], IntToStr(k + 2) \o ". **Customer Support**")

\* index.ts has numbered two attributes and the two closing lines
C20_Witness ==
    /\ pc = "markdown"
    /\ attributes = <<"Feature 1", "Feature 2">>
    /\ Len(KeyFeatureLines) = 4
    /\ StartsWith(KeyFeatureLines[2], "2. **Feature 2**")
    /\ StartsWith(KeyFeatureLines[4], "4. **Customer Support**")

\* Scenario 3: no attributes, five lines
C20_WitnessPlaceholders ==
    /\ pc = "markdown"
    /\ attributes = <<>>
    /\ Len(KeyFeatureLines) = 5
    /\ StartsWith(KeyFeatureLines[5], "5. **Customer Support**")

\* the report of the C# program on a Windows host has numbered one attribute
\* and the closing lines
C20_WitnessReport ==
    /\ pc = "report"
    /\ newLine = "\r\n"
    /\ Len(attributes) = 1
    /\ Len(KeyFeatureLines) = 3
    /\ StartsWith(KeyFeatureLines[3], "3. **Customer Support**")

\* a list long enough for numbers of two digits
C20_WitnessTwoDigits ==
    /\ pc = "markdown"
    /\ Len(attributes) >= 10
    /\ StartsWith(KeyFeatureLines[Len(attributes) + 2],
                  IntToStr(Len(attributes) + 2) \o ". **Customer Support**")

(***************************************************************************)
(* The second variant of the worker (part_005, lines 355-745): Strategy B  *)
(* written in TypeScript                                                   *)
(***************************************************************************)
ToolDescriptionV2 ==
    "Generates natural, AI-like product descriptions (up to 500 characters) dynamically based on any product attributes."

getDefinitionV2 ==
    JObj([name |-> JStr(ToolName),
         description |-> JStr(ToolDescriptionV2),
         version |-> JStr(ToolVersion),
         parameters |-> JArr(<<
            JObj([name |-> JStr("productName"),
                 type |-> JStr("string"),
                 description |-> JStr("The name of the product"),
                 required |-> JBool(TRUE),
                 example |-> JStr("Professional Drill Set")]),
            JObj([name |-> JStr("partNumber"),
                 type |-> JStr("string"),
                 description |-> JStr("The product part number or SKU"),
                 required |-> JBool(TRUE),
                 example |-> JStr("DRL-2024-PRO")]),
            JObj([name |-> JStr("attributes"),
                 type |-> JStr("array"),
                 description |-> JStr("List of product attributes, features, or specifications (e.g., [\"Color: Blue\", \"Power: 20V\", \"Material: Steel\"])"),
                 required |-> JBool(TRUE),
                 example |-> StrArr(<<"Color: Blue", "Power: 20V", "Weight: 3.5 lbs">>),
                 items |-> JObj([type |-> JStr("string")])]) >>)])

\* String.prototype.replace with a string pattern: the first occurrence only
ReplaceFirst(s, old, new) ==
    LET i == IndexOfString(s, old)
    IN  IF i < 0 THEN s
        ELSE Substring(s, 0, i) \o new \o SubstringFrom(s, i + Len(old))

\* the opening clause: the variant has no type and no tone
OpeningV2(m) ==
    LET hasPower == \/ MapHasJs(m, "battery voltage (v)")
                    \/ MapHasJs(m, "voltage")
                    \/ MapHasJs(m, "power")
        isCordless == /\ MapHasJs(m, "cordless / corded")
                      /\ ToLowerJs(m["cordless / corded"]) = "cordless"
    IN  IF hasPower /\ isCordless THEN "delivers powerful cordless performance. "
        ELSE IF hasPower THEN "offers reliable powered performance. "
        ELSE "provides professional-grade quality. "

\* the callback of attrList.filter
IsMeaningfulV2(a) ==
    /\ ~Contains(a.key, "cs_")
    /\ ToLowerJs(a.value) # "yes"
    /\ ToLowerJs(a.value) # "no"

\* attrList.filter(...).slice(0, 3)
MeaningfulAttrsV2(list) == Take(SelectSeq(list, IsMeaningfulV2), 3)

FeaturesV2(list) ==
    LET meaningfulAttrs == MeaningfulAttrsV2(list)
    IN  IF Len(meaningfulAttrs) > 0
        THEN "Features include "
             \o Join([i \in 1..Len(meaningfulAttrs) |-> meaningfulAttrs[i].value], ", ")
             \o ". "
        ELSE ""

\* if (brand): an empty value is falsy
BrandV2(m) ==
    IF MapHasJs(m, "brand") /\ m["brand"] # ""
    THEN "Built with " \o m["brand"] \o " quality and reliability. "
    ELSE ""

WarrantyV2(m) ==
    IF MapHasJs(m, "cs_manufacturer_warranty") /\ m["cs_manufacturer_warranty"] # ""
    THEN "Backed by "
         \o FirstPiece(ReplaceFirst(m["cs_manufacturer_warranty"], " limited warranty", ""), "/")
         \o " warranty. "
    ELSE "Designed for demanding applications. "

\* the description before the length test
ComposeV2(pn, part, attrs) ==
    LET parsed == ParseAttributesV2(attrs)
    IN  "The " \o pn \o " (Part# " \o part \o ") "
            \o OpeningV2(parsed.attrMap)
            \o FeaturesV2(parsed.attrList)
            \o BrandV2(parsed.attrMap)
            \o WarrantyV2(parsed.attrMap)

\* generateDescription(productName, partNumber, attributes) on strings
generateDescriptionV2(pn, part, attrs) == TrimJs(Truncate(ComposeV2(pn, part, attrs)))

\* where the forEach callback throws on an element that is not a string:
\* at the call of indexOf, of substring (an array with a ":" after its first
\* element) or of toLowerCase (any other array)
ElementSite(v) ==
    IF v.t # "arr" THEN "callback V2 indexOf"
    ELSE IF \E i \in 2..Len(v.a) : v.a[i] = JStr(":")
                                    /\ \A j \in 1..(i - 1) : v.a[j] # JStr(":")
    THEN "callback V2 substring"
    ELSE "callback V2 toLowerCase"

\* what the forEach callback throws on an element that is not a string
ElementError(v) ==
    CASE v.t \in {"null", "undef"} -> NullishReadMessage(v, "indexOf")
      [] v.t = "arr"   ->
            (IF \E i \in 2..Len(v.a) : v.a[i] = JStr(":")
                                       /\ \A j \in 1..(i - 1) : v.a[j] # JStr(":")
             THEN "attr.substring is not a function"
             ELSE "attr.toLowerCase is not a function")
      [] OTHER         -> "attr.indexOf is not a function"

\* ProductDescriptionGeneratorTool.execute(params) of the second variant
executeV2(params) ==
    LET pn    == GetProp(params, "productName")
        part  == GetProp(params, "partNumber")
        attrs == GetProp(params, "attributes")
        bad   == {i \in 1..Len(attrs.a) : attrs.a[i].t # "str"}
        first == CHOOSE i \in bad : \A j \in bad : i <= j
    IN  IF params.t \in {"null", "undef"}
        THEN Throw("TypeError", NullishReadMessage(params, "productName"),
                   "execute V2 params")
        ELSE IF ~Truthy(pn) \/ ~Truthy(part) \/ ~Truthy(attrs)
        THEN Throw("Error",
                   "Missing required parameters: productName, partNumber, and attributes are required",
                   "execute V2 missing")
        ELSE IF attrs.t # "arr" \/ Len(attrs.a) = 0
        THEN Throw("Error", "attributes must be a non-empty array", "execute V2 empty")
        ELSE IF bad # {}
        THEN Throw("TypeError", ElementError(attrs.a[first]), ElementSite(attrs.a[first]))
        ELSE IF ToStrThrows(pn) \/ ToStrThrows(part)
        THEN (IF ToStrThrows(pn)
              THEN ConversionError(pn, "generateDescription V2 productName")
              ELSE ConversionError(part, "generateDescription V2 partNumber"))
        ELSE Return(JObj([k \in {"content", "productName", "partNumber", "attributeCount"} |->
                CASE k = "content" ->
                        JStr(generateDescriptionV2(ToStr(pn), ToStr(part),
                                                   [i \in 1..Len(attrs.a) |-> attrs.a[i].s]))
                  [] k = "productName" -> pn
                  [] k = "partNumber"  -> part
                  [] OTHER             -> JNum(Len(attrs.a))]))

\* the POST / branch of the second variant: the same chain and envelope as
\* index.ts around its own execute
PostResponseV2(body) ==
    LET parsed  == RequestJsonV2(body)
        outcome == executeV2(ExtractParams(body))
    IN  IF parsed.threw THEN ErrorResponse(parsed)
        ELSE IF body.t = "null"
        THEN ErrorResponse(Throw("TypeError", NullishReadMessage(body, "parameters"),
                                 "fetch V2"))
        ELSE IF outcome.threw THEN ErrorResponse(outcome)
        ELSE SuccessResponse(outcome.value)

\* the call of the second variant from the settling of request.json()
\* (line 657) to `await tool.execute(params)` (line 677), or to the catch block
AfterJsonV2(cs, i) ==
    LET body   == RequestOf(cs, i).body
        parsed == RequestJsonV2(body)
    IN  IF parsed.threw
        THEN [cs[i] EXCEPT !.stage = "responded", !.response = ErrorResponse(parsed)]
        ELSE IF body.t = "null"
        THEN [cs[i] EXCEPT !.stage = "responded",
                           !.response = ErrorResponse(Throw("TypeError",
                               NullishReadMessage(body, "parameters"), "fetch V2"))]
        ELSE [cs[i] EXCEPT !.stage = "awaitingExecute",
                           !.outcome = executeV2(ExtractParams(body))]

(***************************************************************************)
(* The program that answers with Strategy C (Program.cs, lines 320-582)    *)
(***************************************************************************)
\* a handler that lets an empty attributes list through
MapPostSummaryLenient(body) ==
    LET pn   == BoundString(GetProp(body, "productName"))
        part == BoundString(GetProp(body, "partNumber"))
        list == BoundList(GetProp(body, "attributes"))
    IN  IF \/ IsNullOrWhiteSpace(pn)
           \/ IsNullOrWhiteSpace(part)
           \/ GetProp(body, "attributes").t = "null"
        THEN SdkFailureResult("Missing required parameters",
                              "productName, partNumber, and attributes are required")
        ELSE SdkSuccessResult(pn, part, Len(list),
                              SummaryGenerateProductDescription(pn, part, list))

\* the handler on the bound request: an absent attributes property keeps the
\* empty list of the class, a null one is null
MapPostSummary(body) ==
    LET pn   == BoundString(GetProp(body, "productName"))
        part == BoundString(GetProp(body, "partNumber"))
        list == BoundList(GetProp(body, "attributes"))
    IN  IF \/ IsNullOrWhiteSpace(pn)
           \/ IsNullOrWhiteSpace(part)
           \/ GetProp(body, "attributes").t = "null"
        THEN SdkFailureResult("Missing required parameters",
                              "productName, partNumber, and attributes are required")
        ELSE IF Len(list) = 0
        THEN SdkFailureResult("Invalid attributes",
                              "attributes must contain at least one item")
        ELSE SdkSuccessResult(pn, part, Len(list),
                              SummaryGenerateProductDescription(pn, part, list))

(***************************************************************************)
(* The parameters each program declares in its discovery answer            *)
(***************************************************************************)
\* Program.cs, lines 43-66: the entries of the first variant of the worker
ProgramParameters == ParametersV1

\* part_007, lines 69-97: the entries of index.ts
SdkParameters == GetProp(getDefinition, "parameters")

\* Program.cs, lines 381-407: the entries of the second variant of the worker
SummaryParameters == GetProp(getDefinitionV2, "parameters")

\* the parameters array of the program that has answered
DeclaredParameters(program) ==
    CASE program = "index.ts"       -> GetProp(getDefinition, "parameters")
      [] program = "workerV1"       -> ParametersV1
      [] program = "workerV2"       -> GetProp(getDefinitionV2, "parameters")
      [] program = "Program.cs"     -> ProgramParameters
      [] program = "part_007"       -> SdkParameters
      [] OTHER                      -> SummaryParameters

\* the entry called attributes is declared required
DeclaresAttributesRequired(parameters) ==
    \E i \in 1..Len(parameters.a) :
        /\ GetProp(parameters.a[i], "name") = JStr("attributes")
        /\ GetProp(parameters.a[i], "required") = JBool(TRUE)

Programs == {"index.ts", "workerV1", "workerV2", "Program.cs", "part_007", "Program.cs (summary)"}

\* the answer of a program to POST / with the body
PostAnswer(program, body) ==
    CASE program = "index.ts"   -> PostResponse(body)
      [] program = "workerV1"   -> PostResponseV1(body)
      [] program = "workerV2"   -> PostResponseV2(body)
      [] program = "Program.cs" -> MapPost(body)
      [] program = "part_007"   -> MapPostSdk(body)
      [] OTHER                  -> MapPostSummary(body)

InitPolicy ==
    /\ pc = "asked"
    /\ request \in {[method |-> "POST", path |-> "/", body |-> b] : b \in ParamObjects}
    /\ response = NoResponse
    /\ productName = ""
    /\ partNumber = ""
    /\ attributes = <<>>
    /\ type = ""
    /\ tone = ""
    /\ attrMap = EmptyMap
    /\ attrList = <<>>
    /\ description = ""
    /\ calls = <<>>
    /\ runtime \in Runtimes
    /\ newLine \in NewLines
    /\ tool = NewTool
    /\ PriorityKeys = NewPriorityKeys

Workers == {"index.ts", "workerV1", "workerV2"}

\* the call of a worker that received the request, at its first await
CallAtJson == [NewCall EXCEPT !.request = request, !.stage = "awaitingJson"]

\* that call after request.json() has settled
CallAfterJson(worker) ==
    CASE worker = "index.ts" -> AfterJson(<<CallAtJson>>, 1)
      [] worker = "workerV1" -> AfterJsonV1(<<CallAtJson>>, 1)
      [] OTHER               -> AfterJsonV2(<<CallAtJson>>, 1)

\* that call after the promise it awaited has settled; the second variant
\* builds its Response as index.ts does
CallAfterExecute(worker) ==
    IF worker = "workerV1"
    THEN AfterExecuteV1(<<CallAfterJson(worker)>>, 1)
    ELSE AfterExecute(<<CallAfterJson(worker)>>, 1)

\* one of the workers is called with the request, a POST /, and runs to
\* `await request.json()`
WorkerCalled ==
    /\ pc = "asked"
    /\ \E worker \in Workers : pc' = "awaitingJson " \o worker
    /\ UNCHANGED <<tool, PriorityKeys,
                   runtime, newLine, calls, request, response, productName, partNumber,
                   attributes, type, tone, attrMap, attrList, description>>

\* request.json() settles: the worker runs to its second await, or answers
WorkerJsonSettles ==
    /\ \E worker \in Workers :
          /\ pc = "awaitingJson " \o worker
          /\ LET call == CallAfterJson(worker)
             IN  /\ pc' = IF call.stage = "responded" THEN worker
                          ELSE "awaitingExecute " \o worker
                 /\ response' = call.response
    /\ UNCHANGED <<tool, PriorityKeys,
                   runtime, newLine, calls, request, productName, partNumber, attributes, type, tone,
                   attrMap, attrList, description>>

\* the awaited promise settles and the worker returns its Response
WorkerExecuteSettles ==
    /\ \E worker \in Workers :
          /\ pc = "awaitingExecute " \o worker
          /\ pc' = worker
          /\ response' = CallAfterExecute(worker).response
    /\ UNCHANGED <<tool, PriorityKeys,
                   runtime, newLine, calls, request, productName, partNumber, attributes, type, tone,
                   attrMap, attrList, description>>

\* one of the C# programs binds the body and answers the request
ProgramAnswers ==
    /\ pc = "asked"
    /\ Bindable(request.body)
    /\ \E program \in {"Program.cs", "part_007", "Program.cs (summary)"} :
          /\ pc' = program
          /\ response' = PostAnswer(program, request.body)
    /\ UNCHANGED <<tool, PriorityKeys,
                   runtime, newLine, calls, request, productName, partNumber, attributes, type, tone,
                   attrMap, attrList, description>>

NextPolicy ==
    \/ WorkerCalled
    \/ WorkerJsonSettles
    \/ WorkerExecuteSettles
    \/ ProgramAnswers

SpecPolicy == InitPolicy /\ [][NextPolicy]_vars

\* both names are there and the attributes list is absent or empty
NamedWithoutAttributes(body) ==
    /\ GetProp(body, "productName") = JStr("Widget")
    /\ GetProp(body, "partNumber") = JStr("W-1")
    /\ GetProp(body, "attributes") \in {Undef, JArr(<<>>)}

\* C21: in each program the attributes parameter is declared required=true
\* in the discovery schema if and only if the program rejects a request whose
\* names are present and whose attributes list is absent or empty.
C21_SchemaStatesPolicy ==
    (pc \in Programs /\ NamedWithoutAttributes(request.body)) =>
        (DeclaresAttributesRequired(DeclaredParameters(pc)) <=> response.status = 400)

\* a program that declares attributes required has rejected the empty list
C21_Witness ==
    /\ pc = "workerV2"
    /\ NamedWithoutAttributes(request.body)
    /\ GetProp(request.body, "attributes") = JArr(<<>>)
    /\ DeclaresAttributesRequired(DeclaredParameters(pc))
    /\ response.status = 400

\* a program that declares attributes optional has accepted a request without them
C21_WitnessOptional ==
    /\ pc = "index.ts"
    /\ NamedWithoutAttributes(request.body)
    /\ GetProp(request.body, "attributes") = Undef
    /\ ~DeclaresAttributesRequired(DeclaredParameters(pc))
    /\ response.status = 200

\* the C# program with the required attributes has rejected the absent list
C21_WitnessSummary ==
    /\ pc = "Program.cs (summary)"
    /\ GetProp(request.body, "attributes") = Undef
    /\ NamedWithoutAttributes(request.body)
    /\ response.status = 400

(***************************************************************************)
(* The defaults of type and tone in the C# tool                            *)
(***************************************************************************)
\* absent (null or empty) or nothing but white space
IsBlank(str) == Trim(str) = ""

\* C22: GenerateDescription called with a blank or absent type uses and
\* echoes "general", with a blank or absent tone uses and echoes
\* "professional"; a type or tone that is not blank is passed to the service
\* and echoed unchanged.
C22_TypeToneDefaults ==
    pc = "toolReturned" =>
        LET ty == IF IsBlank(type) THEN "general" ELSE type
            tn == IF IsBlank(tone) THEN "professional" ELSE tone
        IN  /\ GetProp(response.body, "type") = JStr(ty)
            /\ GetProp(response.body, "tone") = JStr(tn)
            /\ description =
                   ServiceGenerateProductDescription(productName, partNumber, attributes, ty, tn)
            /\ GetProp(response.body, "content") = JStr(description)

\* type "ecommerce" with no tone: the default tone has selected the
\* ecommerce + professional opening
C22_Witness ==
    /\ pc = "toolReturned"
    /\ type = "ecommerce"
    /\ tone = ""
    /\ GetProp(response.body, "tone") = JStr("professional")
    /\ Contains(description, "provides exceptional professional-grade quality and reliability. ")

\* neither given: both defaults echoed, the default opening used
C22_WitnessBothDefaults ==
    /\ pc = "toolReturned"
    /\ type = " "
    /\ tone = " "
    /\ GetProp(response.body, "type") = JStr("general")
    /\ GetProp(response.body, "tone") = JStr("professional")
    /\ Contains(description, "provides professional-grade quality. ")

\* a supplied tone is echoed as it came
C22_WitnessSupplied ==
    /\ pc = "toolReturned"
    /\ type = "ecommerce"
    /\ tone = "casual"
    /\ GetProp(response.body, "tone") = JStr("casual")
    /\ Contains(description, "provides professional-grade quality. ")

(***************************************************************************)
(* Clause specification: the clauses of Strategy B over short inputs       *)
(***************************************************************************)
MaxClauseAttrs == 2   \* longest attribute list drawn from ClausePool

ClausePool ==
    {"Brand: DEWALT", "brand: Makita", "Voltage: 20V",
     "Cordless / Corded: Cordless",
     "Capacity: 28 oz.", "Color: Yellow", "Material: Hardened steel alloy",
     "Weight: Net weight 5 lb", "Charger Included: Yes", "Size: XL",
     "cs_manufacturer_warranty: 3 year limited warranty / 1 year free service",
     "brand"}

\* four attributes that pass the filter, the priority keys last
FourFeatures == <<"Color: Yellow", "Voltage: 20V", "Capacity: 28 oz.", "Net Weight: 5 lb">>

\* five attributes that pass the filter, none of them with a priority key
FivePlain == <<"Color: Yellow", "Voltage: 20V", "Just Text", "Finish: Matte", "Grip: Rubber">>

\* a feature, a brand and a warranty
EveryClause ==
    <<"cs_manufacturer_warranty: 3 year limited warranty / 1 year free service",
      "Brand: DEWALT", "Capacity: 28 oz.">>

ClauseLists ==
    UNION {[1..n -> ClausePool] : n \in 0..MaxClauseAttrs}
        \cup {ReadmeAttributes, FourFeatures, FivePlain, EveryClause}

ClauseTypes == {"general", "ecommerce", "ECOMMERCE"}
ClauseTones == {"professional", "Professional", "casual"}

InitClauses ==
    /\ pc = "called"
    /\ request = NoRequest
    /\ response = NoResponse
    /\ productName = "Drill"
    /\ partNumber = "P-1"
    /\ attributes \in ClauseLists
    /\ type = ""
    /\ tone = ""
    /\ attrMap = EmptyMap
    /\ attrList = <<>>
    /\ description = ""
    /\ calls = <<>>
    /\ runtime = NoRuntime
    /\ newLine = LineFeed
    /\ tool = NewTool
    /\ PriorityKeys = NewPriorityKeys

\* DescriptionGenerationService.GenerateProductDescription(productName, partNumber, attributes, type, tone)
DescribeService ==
    /\ pc = "called"
    /\ \E ty \in ClauseTypes, tn \in ClauseTones :
          /\ type' = ty
          /\ tone' = tn
          /\ description' =
                ServiceGenerateProductDescription(productName, partNumber, attributes, ty, tn)
    /\ attrMap' = ParseAttributes(attributes).attrMap
    /\ attrList' = ParseAttributes(attributes).attrList
    /\ pc' = "service"
    /\ UNCHANGED <<tool, PriorityKeys,
                   runtime, newLine, calls, request, response, productName, partNumber, attributes>>

\* generateDescription of the second TypeScript variant
DescribeV2 ==
    /\ pc = "called"
    /\ description' = generateDescriptionV2(productName, partNumber, attributes)
    /\ attrMap' = ParseAttributesV2(attributes).attrMap
    /\ attrList' = ParseAttributesV2(attributes).attrList
    /\ pc' = "v2"
    /\ UNCHANGED <<tool, PriorityKeys,
                   runtime, newLine, calls, request, response, productName, partNumber, attributes, type, tone>>

NextClauses == DescribeService \/ GenerateInline \/ DescribeV2

SpecClauses == InitClauses /\ [][NextClauses]_vars

\* "The {productName} (Part# {partNumber}) "
Lead == "The " \o productName \o " (Part# " \o partNumber \o ") "

\* the lookup has one of the keys "battery voltage (v)", "voltage", "power"
HasPower(m) == \E k \in {"battery voltage (v)", "voltage", "power"} : MapHas(m, k)

\* the lookup value for "cordless / corded" equals "cordless" ignoring case
IsCordless(m) ==
    MapHas(m, "cordless / corded") /\ ToLower(MapGet(m, "cordless / corded")) = "cordless"

\* one lookup for each combination of (hasPower, isCordless)
CombinationMaps ==
    {ParseAttributes(l).attrMap :
        l \in {<<>>, <<"Voltage: 20V">>, <<"Cordless / Corded: Cordless">>,
               <<"Voltage: 20V", "Cordless / Corded: Cordless">>}}

\* the opening clause the called C# generator selects for lookup m
OpeningFor(m) ==
    IF pc = "service" THEN GetOpeningStatement(m, type, tone)
    ELSE GetOpeningStatement(m, "", "")

\* C23: for a fixed type and tone the four combinations of (hasPower,
\* isCordless) select four different opening clauses: the description of a
\* product never opens with the clause selected for another combination.
C23_FourOpenings ==
    pc \in {"service", "inline"} =>
        \A m \in CombinationMaps :
            <<HasPower(m), IsCordless(m)>> # <<HasPower(attrMap), IsCordless(attrMap)>>
                => ~StartsWith(description, Lead \o Trim(OpeningFor(m)))

\* the code selects among three clauses: cordless is asked only of a powered product
OpeningClass(m) ==
    IF HasPower(m) /\ IsCordless(m) THEN "powered cordless"
    ELSE IF HasPower(m) THEN "powered" ELSE "unpowered"

\* products of different classes open with different clauses, products of
\* the same class with the same clause
C23_ThreeOpenings ==
    pc \in {"service", "inline"} =>
        \A m \in CombinationMaps :
            (OpeningClass(m) # OpeningClass(attrMap))
                <=> ~StartsWith(description, Lead \o Trim(OpeningFor(m)))

\* a cordless product without a power key opens like a product with neither
C23_WitnessMerged ==
    /\ pc = "service"
    /\ ~HasPower(attrMap)
    /\ IsCordless(attrMap)
    /\ StartsWith(description, Lead \o "provides professional-grade quality.")

\* the one pair of type and tone the service distinguishes
IsEcommerceProfessional(ty, tn) == ToLower(ty) = "ecommerce" /\ ToLower(tn) = "professional"

\* pairs of type and tone the service is not called with in SpecClauses
OtherPairs == {<<"technical", "friendly">>, <<"", "">>, <<"professional", "ecommerce">>}

\* C24: type and tone affect the content only through the pair ("ecommerce",
\* "professional") ignoring case: for the same productName, partNumber and
\* attributes the service returns the same content for every two pairs
\* neither of which is that pair (each call with such a pair returns what
\* the calls with the pairs of OtherPairs return).
C24_TypeToneOnlySpecialCase ==
    (pc = "service" /\ ~IsEcommerceProfessional(type, tone)) =>
        \A pair \in OtherPairs :
            ~IsEcommerceProfessional(pair[1], pair[2]) =>
                ServiceGenerateProductDescription(productName, partNumber, attributes,
                                                  pair[1], pair[2]) = description

\* type "ECOMMERCE" with tone "casual" gave the content of the default pair,
\* and the special pair would have given another
C24_Witness ==
    /\ pc = "service"
    /\ type = "ECOMMERCE"
    /\ tone = "casual"
    /\ attributes = ReadmeAttributes
    /\ description = ServiceGenerateProductDescription(productName, partNumber, attributes,
                                                      "general", "professional")
    /\ description # ServiceGenerateProductDescription(productName, partNumber, attributes,
                                                      "ecommerce", "professional")

(***************************************************************************)
(* The feature clause as it can be read in the returned content            *)
(***************************************************************************)
\* the sentences that can follow the feature clause
ClosingStarts == {"Built with ", "Backed by ", "Designed for demanding applications."}

Min(S) == CHOOSE x \in S : \A y \in S : x <= y

\* the pieces of s between the occurrences of sep
RECURSIVE SplitOn(_, _)
SplitOn(s, sep) ==
    LET i == IndexOfString(s, sep)
    IN  IF i < 0 THEN <<s>>
        ELSE <<Substring(s, 0, i)>> \o SplitOn(SubstringFrom(s, i + Len(sep)), sep)

\* what stands between "Features include " and the final ". " of the clause
FeatureText(text) ==
    LET i == IndexOfString(text, "Features include ")
    IN  IF i < 0 THEN ""
        ELSE LET rest == SubstringFrom(text, i + Len("Features include "))
                 ends == {IndexOfString(rest, c) : c \in ClosingStarts} \ {-1}
                 clause == IF ends = {} THEN Trim(rest) ELSE Trim(Substring(rest, 0, Min(ends)))
             IN  Substring(clause, 0, Len(clause) - 1)

HasFeatureClause(text) == Contains(text, "Features include ")

\* the features the clause lists
FeatureItems(text) ==
    IF HasFeatureClause(text) THEN SplitOn(FeatureText(text), ", ") ELSE <<>>

\* the filter of the feature clause
PassesFilter(a) ==
    /\ ~Contains(a.key, "cs_")
    /\ a.key \notin {"brand", "cordless / corded"}
    /\ ToLower(a.value) \notin {"yes", "no"}
    /\ Len(a.value) >= 3

\* item is attribute a as the clause may show it
Shows(item, a) == item = a.value \/ item = a.key \o ": " \o a.value

FeatureFilterObeyed ==
    LET items == FeatureItems(description)
        passing == SelectSeq(attrList, PassesFilter)
    IN  /\ Len(items) <= 3
        /\ \A i \in 1..Len(items) : \E j \in 1..Len(passing) : Shows(items[i], passing[j])
        /\ HasFeatureClause(description) <=> (passing # <<>>)

\* C25: the feature clause lists at most 3 attributes, lists only attributes
\* that pass the filter (key without "cs_", key neither "brand" nor
\* "cordless / corded", value neither "yes" nor "no" ignoring case, value of
\* 3 characters or more), and is absent exactly when no attribute passes.
C25_FeatureFilter ==
    pc \in {"service", "inline", "v2"} => FeatureFilterObeyed

\* the same for the two C# generators alone
C25_FeatureFilterCSharp ==
    pc \in {"service", "inline"} => FeatureFilterObeyed

\* the C# service shows 3 of 4 passing attributes
C25_WitnessThreeOfFour ==
    /\ pc = "service"
    /\ attributes = FourFeatures
    /\ Len(SelectSeq(attrList, PassesFilter)) = 4
    /\ Len(FeatureItems(description)) = 3

\* nothing passes and the C# service has no feature clause
C25_WitnessAbsent ==
    /\ pc = "service"
    /\ attributes = <<"Brand: DEWALT", "Size: XL">>
    /\ ~HasFeatureClause(description)

\* the TypeScript generator lists the brand as a feature
C25_WitnessBrandListed ==
    /\ pc = "v2"
    /\ attributes = <<"Brand: DEWALT">>
    /\ FeatureItems(description) = <<"DEWALT">>

\* the key matches the priority set: it contains one of its members
MatchesPriority(a) ==
    \E k \in {"capacity", "cartridge type", "weight", "dimensions", "material"} :
        Contains(a.key, k)

NoPriority(a) == ~MatchesPriority(a)

\* the passing attributes, those of the priority class first, each class in
\* its input order
PriorityOrder ==
    LET passing == SelectSeq(attrList, PassesFilter)
    IN  SelectSeq(passing, MatchesPriority) \o SelectSeq(passing, NoPriority)

\* C26: the attributes that pass the filter are ordered with the attributes
\* whose key matches the priority set first and each class in input order,
\* and the features shown are the first 3 of that order.
C26_PriorityOrder ==
    pc \in {"service", "inline"} =>
        LET items == FeatureItems(description)
        IN  /\ Len(items) = (IF Len(PriorityOrder) < 3 THEN Len(PriorityOrder) ELSE 3)
            /\ \A i \in 1..Len(items) : Shows(items[i], PriorityOrder[i])

\* two priority attributes given last are shown first, and the fourth
\* attribute of the order is not shown
C26_Witness ==
    /\ pc = "service"
    /\ attributes = FourFeatures
    /\ FeatureItems(description) = <<"capacity: 28 oz.", "net weight: 5 lb", "color: Yellow">>

\* attributes of one class keep their input order
C26_WitnessStable ==
    /\ pc = "inline"
    /\ attributes = FivePlain
    /\ FeatureItems(description) = <<"color: Yellow", "voltage: 20V", "Just Text">>

\* the first word of a key: what stands before its first space
FirstWord(key) ==
    LET i == IndexOfString(key, " ")
    IN  IF i < 0 THEN key ELSE Substring(key, 0, i)

\* C27: a listed feature is rendered "{key}: {value}" exactly when its value
\* is shorter than 15 characters and the lower-cased value does not contain
\* the first word of the key, and as the value alone otherwise.
C27_FeatureRendering ==
    pc \in {"service", "inline"} =>
        LET items == FeatureItems(description)
        IN  \A i \in 1..Len(items) :
                /\ i <= Len(PriorityOrder)
                /\ LET a == PriorityOrder[i]
                       keyed == /\ Len(a.value) < 15
                                /\ ~Contains(ToLower(a.value), FirstWord(a.key))
                   IN  /\ keyed => items[i] = a.key \o ": " \o a.value
                       /\ ~keyed => items[i] = a.value

\* the example of the README: a short value with its key, a long value alone
C27_Witness ==
    /\ pc = "service"
    /\ attributes = ReadmeAttributes
    /\ FeatureItems(description) = <<"capacity: 28 oz.", "27-28 oz. Adhesive 10:1">>

\* a short value that names the first word of its key stands alone
C27_WitnessValueNamesKey ==
    /\ pc = "inline"
    /\ attributes = <<"Weight: Net weight 5 lb">>
    /\ FeatureItems(description) = <<"Net weight 5 lb">>

(***************************************************************************)
(* The brand sentence                                                      *)
(***************************************************************************)
HasBrandKey(a) == a.key = "brand"

HasBrandKeyKeyed(a) == Keyed(a.original) /\ a.key = "brand"

\* no brand sentence when brands is empty, else one that names the value of
\* the last member of brands
BrandSentenceFor(brands) ==
    IF brands = <<>>
    THEN ~Contains(description, "Built with ")
    ELSE /\ Contains(description,
                     "Built with " \o brands[Len(brands)].value \o " quality and reliability.")
         /\ Len(SplitOn(description, "Built with ")) = 2

\* C28 as stated: the brand sentence appears if and only if some attribute
\* has the key "brand" ignoring case, and names the value of the last one.
C28_BrandSentence ==
    pc \in {"service", "inline"} => BrandSentenceFor(SelectSeq(attrList, HasBrandKey))

\* C28: the brand sentence appears if and only if some keyed attribute (one
\* whose first colon is after position 0) has the key "brand" ignoring case,
\* and names the value of the last such attribute.
C28_BrandSentenceKeyed ==
    pc \in {"service", "inline"} => BrandSentenceFor(SelectSeq(attrList, HasBrandKeyKeyed))

\* two brands: the sentence names the later one
C28_Witness ==
    /\ pc = "service"
    /\ attributes = <<"Brand: DEWALT", "brand: Makita">>
    /\ Contains(description, "Built with Makita quality and reliability.")
    /\ ~Contains(description, "DEWALT")

\* no brand, no sentence
C28_WitnessNoBrand ==
    /\ pc = "service"
    /\ attributes = <<"Color: Yellow">>
    /\ ~Contains(description, "Built with ")

\* the attribute "brand" without a colon has the key "brand" and gives no sentence
C28_WitnessUnkeyed ==
    /\ pc = "service"
    /\ attributes = <<"brand">>
    /\ attrList[1].key = "brand"
    /\ ~Contains(description, "Built with ")

(***************************************************************************)
(* The length budget of the inline Strategy B                              *)
(***************************************************************************)
\* the final text of the description: the composed text as it would be returned
FinalText == Trim(InlineCompose(productName, partNumber, attributes))

\* C29: the inline Strategy B returns the composed description without
\* truncation and without a trailing "..." whenever its final text is at
\* most 500 characters long; a final text of exactly 500 characters is
\* returned complete.
C29_WithinBudgetReturnedComplete ==
    pc = "inline" =>
        (Len(FinalText) <= MaxDescriptionLength =>
            /\ description = FinalText
            /\ ~EndsWith(description, "..."))

\* the test the code makes: the length of the composed text before it is trimmed
C29_ComposedWithinBudgetReturnedComplete ==
    pc = "inline" =>
        (Len(InlineCompose(productName, partNumber, attributes)) <= MaxDescriptionLength =>
            /\ description = FinalText
            /\ ~EndsWith(description, "..."))

\* a final text of exactly 500 characters is cut to 497 characters and "..."
C29_WitnessCutAtBudget ==
    /\ pc = "inline"
    /\ Len(FinalText) = MaxDescriptionLength
    /\ Len(InlineCompose(productName, partNumber, attributes)) = MaxDescriptionLength + 1
    /\ description # FinalText
    /\ description = Substring(FinalText, 0, TruncatedLength) \o "..."

\* a final text of 499 characters is returned complete
C29_WitnessComplete ==
    /\ pc = "inline"
    /\ Len(FinalText) = MaxDescriptionLength - 1
    /\ description = FinalText

(***************************************************************************)
(* The order of the clauses                                                *)
(***************************************************************************)
OpeningClauses ==
    {"delivers powerful, reliable cordless performance for professional applications.",
     "offers consistent, professional-grade powered performance.",
     "provides exceptional professional-grade quality and reliability.",
     "delivers powerful cordless performance.",
     "offers reliable powered performance.",
     "provides professional-grade quality."}

GenericClosing == "Designed for demanding applications."

\* how many times sub occurs in s
Occurrences(s, sub) == Len(SplitOn(s, sub)) - 1

\* the opening clauses that stand right after the lead
OpeningsAtLead == {o \in OpeningClauses : StartsWith(description, Lead \o o)}

\* C30: the description is built in one fixed order: the lead "The
\* {productName} (Part# {partNumber}) ", exactly one opening clause, at most
\* one feature clause, at most one brand sentence, and exactly one closing
\* sentence: the warranty sentence if the key "cs_manufacturer_warranty"
\* exists and the generic closing sentence otherwise, never both.
C30_ClauseOrder ==
    pc \in {"service", "inline"} =>
        LET features == IndexOfString(description, "Features include ")
            brand    == IndexOfString(description, "Built with ")
            warranty == IndexOfString(description, "Backed by ")
            generic  == IndexOfString(description, GenericClosing)
            closing  == IF warranty >= 0 THEN warranty ELSE generic
        IN  /\ Cardinality(OpeningsAtLead) = 1
            /\ \A o \in OpeningClauses : Occurrences(description, o) = (IF o \in OpeningsAtLead THEN 1 ELSE 0)
            /\ Occurrences(description, "Features include ") <= 1
            /\ Occurrences(description, "Built with ") <= 1
            /\ Occurrences(description, "Backed by ") + Occurrences(description, GenericClosing) = 1
            /\ MapHas(attrMap, "cs_manufacturer_warranty") <=> (warranty >= 0)
            /\ \A o \in OpeningsAtLead :
                  LET next == Len(Lead \o o) + 1
                  IN  /\ features >= 0 => features = next
                      /\ (features < 0 /\ brand >= 0) => brand = next
                      /\ (features < 0 /\ brand < 0) => closing = next
            /\ (features >= 0 /\ brand >= 0) =>
                  (features < brand /\ Substring(description, brand - 2, 2) = ". ")
            /\ brand >= 0 =>
                  closing = brand + Len("Built with " \o MapGet(attrMap, "brand") \o " quality and reliability. ")
            /\ (features >= 0 /\ brand < 0) =>
                  (features < closing /\ Substring(description, closing - 2, 2) = ". ")
            /\ IF warranty >= 0 THEN EndsWith(description, " warranty.")
               ELSE EndsWith(description, GenericClosing)

\* all five parts, the warranty sentence closing
C30_Witness ==
    /\ pc = "service"
    /\ attributes = EveryClause
    /\ type = "general"
    /\ description = "The Drill (Part# P-1) provides professional-grade quality. "
                     \o "Features include capacity: 28 oz.. "
                     \o "Built with DEWALT quality and reliability. Backed by 3 year  warranty."

\* features and brand present, the generic sentence closing
C30_WitnessGeneric ==
    /\ pc = "service"
    /\ attributes = ReadmeAttributes
    /\ IndexOfString(description, "Features include ") > 0
    /\ IndexOfString(description, "Built with ") > IndexOfString(description, "Features include ")
    /\ EndsWith(description, GenericClosing)

====
